---- MODULE Spec2Model ----
(***************************************************************************)
(* Verification model of                                                   *)
(*   qiskit/extensions/quantum_initializer/ucg.py   (UCG, ucg)             *)
(*   qiskit/transpiler/passes/synthesis/unitary_synthesis.py               *)
(*                                                                         *)
(* Complex numbers are exact elements of Z[zeta]/sqrt(2)^e, zeta a         *)
(* primitive PhaseUnits-th root of unity, so that matrix products, phases  *)
(* and equalities are computed, not assumed.                               *)
(***************************************************************************)
EXTENDS Integers, Sequences, FiniteSets, TLC

\* ------------------------------------------------------------------------
\* Exact cyclotomic arithmetic
\* ------------------------------------------------------------------------

\* angles are integers, one unit = 2*pi/PhaseUnits
MaxControls == 2

PhaseUnits == 2 ^ (MaxControls + 3)
HalfUnits == PhaseUnits \div 2
PiHalf == PhaseUnits \div 4
PiQuarter == PhaseUnits \div 8
Idx == 1 .. HalfUnits

\* a function over 1 .. n as an explicit tuple
Tup(f) == f \o <<>>

\* F applied to the values of its arguments: each argument is computed once,
\* however often F uses it
Val1(F(_), a) == CHOOSE r \in {F(x) : x \in {a}} : TRUE

Val2(F(_, _), a, b) == CHOOSE r \in {F(x, y) : x \in {a}, y \in {b}} : TRUE

Val3(F(_, _, _), a, b, c) ==
  CHOOSE r \in {F(x, y, z) : x \in {a}, y \in {b}, z \in {c}} : TRUE

\* a cyclotomic integer: the tuple of the integer coefficients of
\* zeta^0 .. zeta^(HalfUnits-1), zeta^HalfUnits = -1
CZero == Tup([j \in Idx |-> 0])

\* zeta^p for any integer angle p
CRoot(p) ==
  Val1(LAMBDA q : Tup([j \in Idx |-> IF q < HalfUnits
                                      THEN (IF j = q + 1 THEN 1 ELSE 0)
                                      ELSE (IF j = q - HalfUnits + 1 THEN -1 ELSE 0)]),
       p % PhaseUnits)

COne == CRoot(0)

CAdd(a, b) == Val2(LAMBDA x, y : Tup([j \in Idx |-> x[j] + y[j]]), a, b)

CNeg(a) == Val1(LAMBDA x : Tup([j \in Idx |-> 0 - x[j]]), a)

\* a * zeta^p
CRot(a, p) ==
  Val2(LAMBDA x, q :
         Val2(LAMBDA r, sg :
                Tup([j \in Idx |-> IF j > r THEN sg * x[j - r]
                                         ELSE (0 - sg) * x[j - r + HalfUnits]]),
              q % HalfUnits, IF q < HalfUnits THEN 1 ELSE -1),
       a, p % PhaseUnits)

CScale(a, n) == Val2(LAMBDA x, k : Tup([j \in Idx |-> k * x[j]]), a, n)

Supp(a) == Val1(LAMBDA x : {j \in Idx : x[j] # 0}, a)

RECURSIVE CMulOver(_, _, _)
CMulOver(S, a, b) ==
  IF S = {} THEN CZero
  ELSE Val1(LAMBDA j : CAdd(CScale(CRot(b, j - 1), a[j]), CMulOver(S \ {j}, a, b)),
            CHOOSE x \in S : TRUE)

CMul(a, b) == Val2(LAMBDA x, y : CMulOver(Supp(x), x, y), a, b)

\* complex conjugate: zeta^j -> zeta^(-j)
CConj(a) ==
  Val1(LAMBDA x : Tup([j \in Idx |-> IF j = 1 THEN x[1] ELSE 0 - x[HalfUnits - j + 2]]),
       a)

\* sqrt(2) = zeta^(pi/4) + zeta^(-pi/4)
CSqrt2 == CAdd(CRoot(PiQuarter), CRoot(0 - PiQuarter))

RECURSIVE CTimesSqrt2(_, _)
CTimesSqrt2(a, n) ==
  IF n = 0 THEN a ELSE Val1(LAMBDA x : CTimesSqrt2(x, n - 1), CMul(CSqrt2, a))

\* a complex number: c / sqrt(2)^e
RECURSIVE Num(_, _)
Num(c, e) ==
  Val2(LAMBDA x, k :
         IF k >= 2 /\ \A j \in Idx : x[j] % 2 = 0
           THEN Num(Tup([j \in Idx |-> x[j] \div 2]), k - 2)
           ELSE [c |-> x, e |-> IF x = CZero THEN 0 ELSE k],
       c, e)

NumEq(p, q) ==
  Val2(LAMBDA x, y :
         Val1(LAMBDA m : CTimesSqrt2(x.c, m - x.e) = CTimesSqrt2(y.c, m - y.e),
              IF x.e > y.e THEN x.e ELSE y.e),
       p, q)

NumMul(p, q) == Val2(LAMBDA x, y : Num(CMul(x.c, y.c), x.e + y.e), p, q)

NumAdd(p, q) ==
  Val2(LAMBDA x, y :
         Val1(LAMBDA m : Num(CAdd(CTimesSqrt2(x.c, m - x.e), CTimesSqrt2(y.c, m - y.e)), m),
              IF x.e > y.e THEN x.e ELSE y.e),
       p, q)

NumNeg(p) == Val1(LAMBDA x : Num(CNeg(x.c), x.e), p)

NumConj(p) == Val1(LAMBDA x : Num(CConj(x.c), x.e), p)

NumZero == Num(CZero, 0)

NumRoot(p) == Num(CRoot(p), 0)

NumIsZero(p) == p.c = CZero

\* z = zeta^p exactly, for some angle p
NumIsRoot(z) == Val1(LAMBDA x : \E p \in 0 .. (PhaseUnits - 1) : NumEq(x, NumRoot(p)), z)

\* the angle of a number of modulus one, in 0 .. PhaseUnits-1
NumAngle(z) ==
  Val1(LAMBDA x : CHOOSE p \in 0 .. (PhaseUnits - 1) : NumEq(x, NumRoot(p)), z)

\* ------------------------------------------------------------------------
\* 2x2 complex matrices <<<<m00, m01>>, <<m10, m11>>>>
\* ------------------------------------------------------------------------

Mat(a, b, c, d) == <<<<a, b>>, <<c, d>>>>

DotEntry(A, B, i, j) ==
  NumAdd(NumMul(A[i][1], B[1][j]), NumMul(A[i][2], B[2][j]))

dot(A, B) ==
  Val2(LAMBDA P, Q : Mat(DotEntry(P, Q, 1, 1), DotEntry(P, Q, 1, 2),
                         DotEntry(P, Q, 2, 1), DotEntry(P, Q, 2, 2)),
       A, B)

MatScale(A, z) ==
  Val2(LAMBDA P, w : Mat(NumMul(P[1][1], w), NumMul(P[1][2], w),
                         NumMul(P[2][1], w), NumMul(P[2][2], w)),
       A, z)

MatEq(A, B) ==
  Val2(LAMBDA P, Q : \A i \in 1 .. 2 : \A j \in 1 .. 2 : NumEq(P[i][j], Q[i][j]), A, B)

IdMat == Mat(NumRoot(0), NumZero, NumZero, NumRoot(0))

XMat == Mat(NumZero, NumRoot(0), NumRoot(0), NumZero)

det(A) ==
  Val1(LAMBDA P : NumAdd(NumMul(P[1][1], P[2][2]), NumNeg(NumMul(P[1][2], P[2][1]))), A)

\* np.transpose(np.conjugate(m))
ct(m) ==
  Val1(LAMBDA P : Mat(NumConj(P[1][1]), NumConj(P[2][1]),
                      NumConj(P[1][2]), NumConj(P[2][2])),
       m)

\* 1/sqrt(2) * [[1, 1], [1, -1]]
h == Mat(Num(COne, 1), Num(COne, 1), Num(COne, 1), Num(CNeg(COne), 1))

\* [[exp(1j*alpha/2), 0], [0, exp(-1j*alpha/2)]], alpha an even angle
rz(alpha) ==
  Val1(LAMBDA half : Mat(NumRoot(half), NumZero, NumZero, NumRoot(0 - half)),
       alpha \div 2)

Diag2(a, b) == Mat(NumRoot(a), NumZero, NumZero, NumRoot(b))

Anti2(a, b) == Mat(NumZero, NumRoot(a), NumRoot(b), NumZero)

IsDiagonal(A) == Val1(LAMBDA P : NumIsZero(P[1][2]) /\ NumIsZero(P[2][1]), A)

IsAntiDiagonal(A) == Val1(LAMBDA P : NumIsZero(P[1][1]) /\ NumIsZero(P[2][2]), A)

\* an angle brought into (-pi, pi], the range of cmath.phase
Wrap(p) ==
  Val1(LAMBDA q : IF q > HalfUnits THEN q - PhaseUnits ELSE q, p % PhaseUnits)

\* cmath.phase(z): the phase of 0 is 0
phase(z) == Val1(LAMBDA x : IF NumIsZero(x) THEN 0 ELSE Wrap(NumAngle(x)), z)

\* ------------------------------------------------------------------------
\* ucg.py
\* ------------------------------------------------------------------------

\* _EPS = 1e-10, in units of 1e-11
EPS == 10

\* a deviation norm far above _EPS, in the same units
FarOff == EPS * EPS

\* A gate as handed to UCG: a numpy array with its shape.  m is the 2x2
\* matrix; pert is the norm of a rounding-size perturbation of it, in units
\* of 1e-11, which the exact arithmetic does not carry.
Gate(m, pert) == [shape |-> <<2, 2>>, m |-> m, pert |-> pert]

\* np.linalg.norm(m^dagger m - I), in units of 1e-11
IsometryError(g) ==
  IF MatEq(dot(ct(g.m), g.m), IdMat) THEN g.pert ELSE FarOff

\* a deviation of exactly eps turned down: the faulty variant C15 is told
\* apart from
is_isometry_strict(g, eps) == IsometryError(g) < eps

\* math.isclose(err, 0, abs_tol=eps)
is_isometry(g, eps) == IsometryError(g) <= eps

RECURSIVE Log2Floor(_)
Log2Floor(n) == IF n <= 1 THEN 0 ELSE 1 + Log2Floor(n \div 2)

\* math.log2(n).is_integer(), n >= 1
IsPowerOfTwo(n) == n >= 1 /\ 2 ^ Log2Floor(n) = n

\* The eigendecomposition np.linalg.eig(M) of a matrix with eigenvalues
\* +i and -i.  LAPACK fixes neither the order of the eigenvalues nor which
\* component of an eigenvector of equal moduli is made real: lp.swap and
\* lp.n1, lp.n2 range over the outcomes.
LapackChoices == [swap : BOOLEAN, n1 : 1 .. 2, n2 : 1 .. 2]

\* unit eigenvector of M for eigenvalue zeta^lam, component n real positive
EigVec(M, lam, n) ==
  IF IsDiagonal(M)
    THEN (IF NumEq(M[1][1], NumRoot(lam)) THEN <<NumRoot(0), NumZero>>
                                          ELSE <<NumZero, NumRoot(0)>>)
    ELSE Val1(LAMBDA w :
                IF n = 1 THEN <<Num(COne, 1), NumMul(w, Num(COne, 1))>>
                         ELSE <<NumMul(NumConj(w), Num(COne, 1)), Num(COne, 1)>>,
              NumMul(NumRoot(lam), NumConj(M[1][2])))

eig(M, lp) ==
  Val3(LAMBDA P, l1, l2 :
         Val2(LAMBDA v1, v2 : [d |-> <<NumRoot(l1), NumRoot(l2)>>,
                               u |-> Mat(v1[1], v2[1], v1[2], v2[2])],
              EigVec(P, l1, lp.n1), EigVec(P, l2, lp.n2)),
       M, IF lp.swap THEN 0 - PiHalf ELSE PiHalf,
       IF lp.swap THEN PiHalf ELSE 0 - PiHalf)

\* the columns left where they are: the faulty variant C14 is told apart
\* from
FlipColumnsNot(u) == u

\* np.flip(u, 1)
FlipColumns(u) == Val1(LAMBDA P : Mat(P[1][2], P[1][1], P[2][2], P[2][1]), u)

\* np.sqrt of a number of modulus one: principal branch
SqrtUnit(z) == NumRoot(Wrap(NumAngle(z)) \div 2)

\* the diagonal r of _demultiplex_single_uc, from x = a b^dagger
demultiplex_r(x) ==
  Val1(LAMBDA phi :
         Val1(LAMBDA arg_x11 :
                Mat(NumRoot((PiHalf - (phi \div 2) - arg_x11) \div 2), NumZero,
                    NumZero,
                    NumRoot((PiHalf - (phi \div 2) + arg_x11 + HalfUnits) \div 2)),
              phase(NumMul(x[1][1], NumConj(NumRoot(phi \div 2))))),
       phase(det(x)))

\* d and u of _demultiplex_single_uc: the eigendecomposition of r x r,
\* flipped when its first eigenvalue is -i
demultiplex_du(eg) ==
  Val1(LAMBDA e : IF NumEq(e.d[1], NumRoot(0 - PiHalf))
                    THEN [d |-> <<e.d[2], e.d[1]>>, u |-> FlipColumns(e.u)]
                    ELSE e,
       eg)

\* UCG._demultiplex_single_uc
demultiplex_single_uc(a, b, lp) ==
  Val2(LAMBDA x, bb :
         Val1(LAMBDA r :
                Val1(LAMBDA du :
                       [v |-> dot(dot(dot(Mat(SqrtUnit(du.d[1]), NumZero,
                                              NumZero, SqrtUnit(du.d[2])),
                                          ct(du.u)), ct(r)), bb),
                        u |-> du.u, r |-> r],
                     demultiplex_du(eig(dot(dot(r, x), r), lp))),
              demultiplex_r(x)),
       dot(a, ct(b)), b)

\* u3(*euler_angles_1q(U)) for a diagonal or antidiagonal U: the matrix of
\* u3 has a real (0,0) entry, so the Euler angles reproduce U divided by
\* the phase of U[0][0]
euler_u3(U) ==
  IF NumIsZero(U[1][1]) THEN U ELSE MatScale(U, NumConj(U[1][1]))

\* the inputs: gate lists whose entries at even and at odd positions are
\* each all diagonal or all antidiagonal, so that every matrix the
\* decomposition meets has entries in the exact number field
GI == Diag2(0, 0)
GZ == Diag2(0, HalfUnits)
GS == Diag2(0, PiHalf)
GX == Anti2(0, 0)
GY == Anti2(0 - PiHalf, PiHalf)
Shear == Mat(NumRoot(0), NumRoot(0), NumZero, NumRoot(0))

DiagGates(k) == IF k <= 1 THEN {GI, GZ, GS} ELSE {GI, GZ}

AntiGates(k) == IF k <= 1 THEN {GX, GY} ELSE {GX}

Interleave(ev, od, n) ==
  Tup([j \in 1 .. n |->
         Gate(IF j % 2 = 1 THEN ev[(j + 1) \div 2] ELSE od[j \div 2], 0)])

ValidItems(k) ==
  LET n == 2 ^ k
      kinds == {DiagGates(k), AntiGates(k)}
  IN  UNION {{Interleave(ev, od, n) :
                 ev \in [1 .. ((n + 1) \div 2) -> te], od \in [1 .. (n \div 2) -> to]} :
             te \in kinds, to \in kinds}

WrongShape == [shape |-> <<2, 3>>, m |-> GI, pert |-> 0]

MalformedItems ==
  { <<>>,
    <<Gate(GI, 0), Gate(GX, 0), Gate(GZ, 0)>>,
    <<WrongShape>>,
    <<Gate(GI, 0), WrongShape>>,
    <<WrongShape, Gate(GI, 0), Gate(GX, 0)>>,
    <<Gate(Shear, 0)>>,
    <<Gate(GX, 0), Gate(Shear, 0)>>,
    <<Gate(GI, EPS + 1)>>,
    <<Gate(GZ, EPS), Gate(GI, EPS + 1)>> }

PerturbedItems == { <<Gate(GI, EPS)>>, <<Gate(GZ, EPS - 1), Gate(GX, 0)>> }

GateLists ==
  {[is_list |-> TRUE, items |-> it] :
      it \in (UNION {ValidItems(k) : k \in 0 .. MaxControls})
             \cup MalformedItems \cup PerturbedItems}
  \cup {[is_list |-> FALSE, items |-> <<Gate(GI, 0), Gate(GX, 0)>>],
        [is_list |-> FALSE, items |-> <<>>]}

\* q_controls as given to circuit.ucg: a list of distinct qubits, or not a list
Range(sq) == {sq[j] : j \in 1 .. Len(sq)}

RECURSIVE DistinctSeqs(_, _)
DistinctSeqs(S, n) ==
  IF n = 0 THEN {<<>>}
  ELSE UNION {{Append(sq, q) : q \in S \ Range(sq)} : sq \in DistinctSeqs(S, n - 1)}

\* the controls are qubits 1 .. MaxControls, the target is qubit 0
QControls ==
  {[kind |-> kd, items |-> sq] :
     kd \in {"list", "register", "tuple"},
     sq \in UNION {DistinctSeqs(1 .. MaxControls, n) : n \in 0 .. MaxControls}}

QTargets ==
  {[is_register |-> FALSE, items |-> <<0>>],
   [is_register |-> TRUE, items |-> <<0>>],
   [is_register |-> TRUE, items |-> <<0, MaxControls + 1>>]}

VARIABLES
  gate_list,           \* argument of UCG(...) / circuit.ucg(...)
  up_to_diagonal,      \* argument of UCG(...) / circuit.ucg(...)
  pc,                  \* where the UCG call chain stands
  error,               \* the exception raised, "none" if none
  num_qubits,          \* Gate.num_qubits of the constructed UCG, 0 before
  single_qubit_gates,  \* _dec_ucg_help: the gates being demultiplexed
  diag,                \* _dec_ucg / _dec_ucg_help: the diagonal
  dec_step,            \* _dec_ucg_help loop counters
  ucg_index,
  pair_i,
  circuit,             \* the circuit _dec_ucg returns
  qc,                  \* the user's circuit: the operations appended so far
  call,                \* the arguments q_controls, q_target of circuit.ucg
  demux,               \* _demultiplex_single_uc: arguments and result of the last call
  touched              \* _dec_ucg_help: the indices used by the last pass of the
                       \* loops and those used so far in the current dec_step

ucgVars == <<gate_list, up_to_diagonal, pc, error, num_qubits,
             single_qubit_gates, diag, dec_step, ucg_index, pair_i, circuit, qc,
             call, demux, touched>>

VARIABLES
  basis_gates,         \* self._basis_gates
  synthesis_fidelity,  \* self._fidelity
  backend_props,       \* self._backend_props
  layout,              \* self.property_set['layout'] is set
  dec_dir,             \* the qubit order on which decomposer2q emits its gate
  dag,                 \* the graph: node identifier -> node
  dag0,                \* the graph as handed to the current run
  ppc,                 \* where run() stands
  perror,              \* the exception run() raised
  euler_basis,
  kak_gate,
  pulse_optimize,
  todo,                \* nodes of dag.named_nodes(...) not yet visited
  info,                \* per node: the locals of its pass through the loop
  runs,                \* number of times run() was started
  queries,             \* the calibration queries made
  wires                \* run(): the local wires after the last pass of the loop

passVars == <<basis_gates, synthesis_fidelity, backend_props, layout, dec_dir,
              dag, dag0, ppc, perror, euler_basis, kak_gate, pulse_optimize,
              todo, info, runs, queries, wires>>

VARIABLES
  scheduled_circuit,   \* timeline_drawer: the instructions of circuit, with
                       \* the durations inst_durations gives them
  reverse_bits,        \* argument of timeline_drawer
  idle_wires,          \* argument of timeline_drawer
  tpc,                 \* where timeline_drawer stands
  regs,                \* timeline_drawer: the register order
  register_events,     \* register -> RegisterEvents.instructions
  program_duration,    \* DrawDataContainer.program_duration
  position_table,      \* DrawDataContainer.position_table
  drawing_objs,        \* DrawDataContainer.drawing_objs
  num_channel,         \* DrawDataContainer.num_channel
  links,               \* update: argument of _gate_link_overlap_check
  aligned_links,       \* update: result of _gate_link_overlap_check
  drawn,               \* output_matplotlib: indices of the objects put on the axes
  terror               \* the exception timeline_drawer / output_matplotlib raised

tlVars == <<scheduled_circuit, reverse_bits, idle_wires, tpc, regs,
            register_events, program_duration, position_table, drawing_objs,
            num_channel, links, aligned_links, drawn, terror>>

vars == <<ucgVars, passVars, tlVars>>

NoError == [kind |-> "none", msg |-> ""]

\* circuit.ucg not called
NoCall == [q_controls |-> <<>>, q_target |-> <<>>]

\* no call of _demultiplex_single_uc yet
NoDemux == [called |-> FALSE]

\* no index used yet in the current dec_step: pair, merged, folded are the
\* indices of the last pass, gates and diag those of the passes of the step
\* so far, pending the merged positions not demultiplexed since
Untouched ==
  [pair |-> <<>>, merged |-> <<>>, folded |-> <<>>,
   gates |-> {}, diag |-> {}, pending |-> {}, passes |-> 0]

QiskitError(msg) == [kind |-> "QiskitError", msg |-> msg]

ValueError(msg) == [kind |-> "ValueError", msg |-> msg]

\* UCG.__init__ without its test for an empty list, which then meets
\* math.log2(0): the faulty variant C2 is told apart from
UCG_init_without_empty_test(gl) ==
  LET n == Len(gl.items)
  IN  IF ~gl.is_list
        THEN QiskitError("The single-qubit unitaries are not provided in a list.")
      ELSE IF \E j \in 1 .. n : gl.items[j].shape # <<2, 2>>
        THEN QiskitError("The dimension of a controlled gate is not equal to (2,2).")
      ELSE IF n = 0
        THEN ValueError("math domain error")
      ELSE IF ~IsPowerOfTwo(n)
        THEN QiskitError("The number of controlled single-qubit gates is not a non negative power of 2.")
      ELSE IF \E j \in 1 .. n : ~is_isometry(gl.items[j], EPS)
        THEN QiskitError("A controlled gate is not unitary.")
      ELSE NoError

\* UCG.__init__: what it raises (NoError when the gate is created)
UCG_init(gl) ==
  LET n == Len(gl.items)
  IN  IF ~gl.is_list
        THEN QiskitError("The single-qubit unitaries are not provided in a list.")
      ELSE IF \E j \in 1 .. n : gl.items[j].shape # <<2, 2>>
        THEN QiskitError("The dimension of a controlled gate is not equal to (2,2).")
      ELSE IF n = 0
        THEN QiskitError("The gate list cannot be empty.")
      ELSE IF ~IsPowerOfTwo(n)
        THEN QiskitError("The number of controlled single-qubit gates is not a non negative power of 2.")
      ELSE IF \E j \in 1 .. n : ~is_isometry(gl.items[j], EPS)
        THEN QiskitError("A controlled gate is not unitary.")
      ELSE NoError

\* circuit.ucg up to and including the construction of the UCG
ucg_checks(gl, q_controls, q_target) ==
  LET n == Len(gl.items)
  IN  IF q_target.is_register /\ Len(q_target.items) # 1
        THEN QiskitError("The target qubit is a QuantumRegister containing more than one qubits.")
      ELSE IF q_controls.kind = "tuple"
        THEN QiskitError("The control qubits must be provided as a list (also if there is only one control qubit).")
      ELSE IF ~gl.is_list
        THEN QiskitError("The single-qubit unitaries are not provided in a list.")
      ELSE IF n = 0
        THEN ValueError("math domain error")
      ELSE IF ~IsPowerOfTwo(n)
        THEN QiskitError("The number of controlled single-qubit gates is not a non negative power of 2.")
      ELSE IF Log2Floor(n) # Len(q_controls.items)
        THEN QiskitError("Number of controlled gates does not correspond to the number of control-qubits.")
      ELSE UCG_init(gl)

\* the instruction circuit.ucg appends
UCGInstruction(gl, utd, qargs) ==
  [name |-> "UCG", num_qubits |-> Log2Floor(Len(gl.items)) + 1,
   params |-> gl.items, up_to_diagonal |-> utd, qargs |-> qargs]

\* circuit operations of the decomposition; qubit 0 is q_target and
\* qubit j + 1 is q_controls[j]
Squ(m) == [op |-> "squ", m |-> m]

U3(m) == [op |-> "u3", m |-> m]

Cx(ctrl) == [op |-> "cx", ctrl |-> ctrl, tgt |-> 0]

\* a diagonal gate of ones in the place of diag: the faulty variant C21 is
\* told apart from
DiagOpOfOnes(d) == [op |-> "diag", d |-> [j \in 1 .. Len(d) |-> Num(COne, 0)]]

\* circuit.diag(diag.tolist(), q)
DiagOp(d) == [op |-> "diag", d |-> d]

Ones(n) == Tup([j \in 1 .. n |-> NumRoot(0)])

\* the factor 2 of k = 2 * (i + shift_2) left out: the faulty variant C27
\* is told apart from
FoldIndicesUnscaled(i, len_ucg, ucg_index_2) ==
  LET k == i + ucg_index_2 * len_ucg
  IN  <<k, k + 1, len_ucg + k, len_ucg + k + 1>>

\* the four indices (as in the code, from 0) of the diagonal that one
\* ucg_index_2 pass writes: k, k + 1, and again after k = len_ucg + k
FoldIndices(i, len_ucg, ucg_index_2) ==
  LET shift_2 == ucg_index_2 * len_ucg
      k == 2 * (i + shift_2)
  IN  <<k, k + 1, len_ucg + k, len_ucg + k + 1>>

\* the indices written by all the passes for ucg_index_2 in range(num_ucgs)
RECURSIVE AllFoldIndices(_, _, _, _)
AllFoldIndices(i, len_ucg, num_ucgs, ucg_index_2) ==
  IF ucg_index_2 >= num_ucgs THEN <<>>
  ELSE FoldIndices(i, len_ucg, ucg_index_2)
       \o AllFoldIndices(i, len_ucg, num_ucgs, ucg_index_2 + 1)

\* one ucg_index_2 pass of the merge of r into the diagonal
MergeDiagOne(dg, r, i, len_ucg, ucg_index_2) ==
  LET ks == FoldIndices(i, len_ucg, ucg_index_2)
      z00 == rz(PiHalf)[1][1]
      z11 == rz(PiHalf)[2][2]
      d1 == [dg EXCEPT ![ks[1] + 1] = NumMul(NumMul(@, ct(r)[1][1]), z00)]
      d2 == [d1 EXCEPT ![ks[2] + 1] = NumMul(NumMul(@, ct(r)[2][2]), z00)]
      d3 == [d2 EXCEPT ![ks[3] + 1] = NumMul(@, NumMul(r[1][1], z11))]
      d4 == [d3 EXCEPT ![ks[4] + 1] = NumMul(@, NumMul(r[2][2], z11))]
  IN  d4

RECURSIVE MergeDiag(_, _, _, _, _, _)
MergeDiag(dg, r, i, len_ucg, num_ucgs, ucg_index_2) ==
  IF ucg_index_2 >= num_ucgs THEN dg
  ELSE MergeDiag(MergeDiagOne(dg, r, i, len_ucg, ucg_index_2),
                 r, i, len_ucg, num_ucgs, ucg_index_2 + 1)

\* r dropped instead of merged: the faulty variant C22 is told apart from
MergeNextDropped(g, r, shift, len_ucg, i) == g

\* r merged into the group being decomposed: the faulty variant C28 is told
\* apart from
MergePositionsSameGroup(shift, len_ucg, i) ==
  <<shift + i, shift + i + len_ucg \div 2>>

\* the two indices (from 0) k = shift + len_ucg + i and k + len_ucg // 2 of
\* the gates r is merged into
MergePositions(shift, len_ucg, i) ==
  <<shift + len_ucg + i, shift + len_ucg + i + len_ucg \div 2>>

\* merge of r into the next, not yet decomposed group of gates
MergeNext(g, r, shift, len_ucg, i) ==
  LET ks == MergePositions(shift, len_ucg, i)
      g1 == [g EXCEPT ![ks[1] + 1] = MatScale(dot(@, ct(r)), rz(PiHalf)[1][1])]
  IN  [g1 EXCEPT ![ks[2] + 1] = MatScale(dot(@, r), rz(PiHalf)[2][2])]

\* b taken next to a: the faulty variant C26 is told apart from
PairBAdjacent(shift, len_ucg, i) == shift + i + 1

\* the indices (from 0) of a and b in single_qubit_gates
PairA(shift, i) == shift + i

PairB(shift, len_ucg, i) == shift + len_ucg \div 2 + i

\* one pass of the innermost loop body of UCG._dec_ucg_help
dec_ucg_help_body(g, dg, num_contr, step, index, i, lp) ==
  LET num_ucgs == 2 ^ step
      len_ucg == 2 ^ (num_contr - step)
      shift == index * len_ucg
      ia == PairA(shift, i) + 1
      ib == PairB(shift, len_ucg, i) + 1
  IN  Val1(LAMBDA o :
             IF index < num_ucgs - 1
               THEN [gates |-> MergeNext([g EXCEPT ![ia] = o.v, ![ib] = o.u],
                                         o.r, shift, len_ucg, i),
                     diag |-> dg,
                     demux |-> [called |-> TRUE, a |-> g[ia], b |-> g[ib],
                                v |-> o.v, u |-> o.u, r |-> o.r],
                     pair |-> <<ia - 1, ib - 1>>,
                     merged |-> MergePositions(shift, len_ucg, i),
                     folded |-> <<>>]
               ELSE [gates |-> [g EXCEPT ![ia] = o.v, ![ib] = o.u],
                     diag |-> MergeDiag(dg, o.r, i, len_ucg, num_ucgs, 0),
                     demux |-> [called |-> TRUE, a |-> g[ia], b |-> g[ib],
                                v |-> o.v, u |-> o.u, r |-> o.r],
                     pair |-> <<ia - 1, ib - 1>>,
                     merged |-> <<>>,
                     folded |-> AllFoldIndices(i, len_ucg, num_ucgs, 0)],
           demultiplex_single_uc(g[ia], g[ib], lp))

\* the ones at the end counted for the zeros: the faulty variant C20 is
\* told apart from
RECURSIVE TrailingOnes(_)
TrailingOnes(n) == IF n % 2 = 0 THEN 0 ELSE 1 + TrailingOnes(n \div 2)

\* len(binary_rep) - len(binary_rep.rstrip('0')), n >= 1
RECURSIVE TrailingZeros(_)
TrailingZeros(n) == IF n % 2 = 1 THEN 0 ELSE 1 + TrailingZeros(n \div 2)

\* the gate placed for leaf i (0-based): H and Rz(pi/2) absorbed
AbsorbedGate(g, i) ==
  LET n == Len(g)
  IN  IF i = 0 THEN dot(h, g[i + 1])
      ELSE IF i = n - 1 THEN dot(dot(g[i + 1], rz(PiHalf)), h)
      ELSE dot(dot(h, dot(g[i + 1], rz(PiHalf))), h)

\* a C-NOT placed after the last gate as well: the faulty variant C16 is
\* told apart from
RECURSIVE PlaceGatesCxAfterLast(_, _)
PlaceGatesCxAfterLast(g, i) ==
  IF i >= Len(g) THEN <<>>
  ELSE <<Squ(AbsorbedGate(g, i)), Cx(TrailingZeros(i + 1) + 1)>>
       \o PlaceGatesCxAfterLast(g, i + 1)

\* the loop of UCG._dec_ucg that places the gates, from leaf i on
RECURSIVE PlaceGates(_, _)
PlaceGates(g, i) ==
  IF i >= Len(g) THEN <<>>
  ELSE <<Squ(AbsorbedGate(g, i))>>
       \o (IF i # Len(g) - 1 THEN <<Cx(TrailingZeros(i + 1) + 1)>> ELSE <<>>)
       \o PlaceGates(g, i + 1)

Matrices(items) == Tup([j \in 1 .. Len(items) |-> items[j].m])

\* ------------------------------------------------------------------------
\* UCG: actions
\* ------------------------------------------------------------------------

InitUCG ==
  /\ gate_list \in GateLists
  /\ up_to_diagonal \in BOOLEAN
  /\ pc = "start"
  /\ error = NoError
  /\ num_qubits = 0
  /\ single_qubit_gates = <<>>
  /\ diag = <<>>
  /\ dec_step = 0
  /\ ucg_index = 0
  /\ pair_i = 0
  /\ circuit = <<>>
  /\ qc = <<>>
  /\ call = NoCall
  /\ demux = NoDemux
  /\ touched = Untouched

\* UCG(gate_list, up_to_diagonal)
UCGNew ==
  /\ pc = "start"
  /\ error' = UCG_init(gate_list)
  /\ IF error'.kind = "none"
       THEN /\ pc' = "constructed"
            /\ num_qubits' = Log2Floor(Len(gate_list.items)) + 1
       ELSE /\ pc' = "raised"
            /\ num_qubits' = num_qubits
  /\ UNCHANGED <<gate_list, up_to_diagonal, single_qubit_gates, diag,
                 dec_step, ucg_index, pair_i, circuit, qc, call, demux, touched>>
  /\ UNCHANGED <<passVars, tlVars>>

\* circuit.ucg(gate_list, q_controls, q_target, up_to_diagonal)
ucg(q_controls, q_target) ==
  /\ pc = "start"
  /\ error' = ucg_checks(gate_list, q_controls, q_target)
  /\ IF error'.kind = "none"
       THEN /\ pc' = "appended"
            /\ num_qubits' = Log2Floor(Len(gate_list.items)) + 1
            /\ qc' = Append(qc, UCGInstruction(gate_list, up_to_diagonal,
                                               <<q_target.items[1]>> \o q_controls.items))
       ELSE /\ pc' = "ucg_raised"
            /\ num_qubits' = num_qubits
            /\ qc' = qc
  /\ call' = [q_controls |-> q_controls, q_target |-> q_target]
  /\ UNCHANGED <<gate_list, up_to_diagonal, single_qubit_gates, diag,
                 dec_step, ucg_index, pair_i, circuit, demux, touched>>
  /\ UNCHANGED <<passVars, tlVars>>

\* UCG._dec_ucg up to the call of _dec_ucg_help
dec_ucg_begin ==
  /\ pc = "constructed"
  /\ IF num_qubits = 1
       THEN /\ circuit' = <<U3(euler_u3(gate_list.items[1].m))>>
            /\ diag' = Ones(2 ^ num_qubits)
            /\ single_qubit_gates' = single_qubit_gates
            /\ pc' = "returned"
       ELSE /\ single_qubit_gates' = Matrices(gate_list.items)
            /\ diag' = Ones(2 ^ num_qubits)
            /\ circuit' = circuit
            /\ pc' = "help"
  /\ UNCHANGED <<gate_list, up_to_diagonal, error, num_qubits,
                 dec_step, ucg_index, pair_i, qc, call, demux, touched>>
  /\ UNCHANGED <<passVars, tlVars>>

\* one pass of the loops of UCG._dec_ucg_help
dec_ucg_help(lp) ==
  /\ pc = "help"
  /\ LET num_contr == num_qubits - 1
         len_ucg == 2 ^ (num_contr - dec_step)
     IN  \E o \in {dec_ucg_help_body(single_qubit_gates, diag, num_contr,
                                     dec_step, ucg_index, pair_i, lp)} :
         /\ single_qubit_gates' = o.gates
         /\ diag' = o.diag
         /\ demux' = o.demux
         /\ touched' =
              [pair |-> o.pair, merged |-> o.merged, folded |-> o.folded,
               gates |-> (IF touched.passes = 0 THEN {} ELSE touched.gates)
                         \cup Range(o.pair),
               diag |-> (IF touched.passes = 0 THEN {} ELSE touched.diag)
                        \cup Range(o.folded),
               pending |-> ((IF touched.passes = 0 THEN {} ELSE touched.pending)
                            \ Range(o.pair)) \cup Range(o.merged),
               passes |-> IF /\ pair_i + 1 >= 2 ^ (num_qubits - 2 - dec_step)
                             /\ ucg_index + 1 >= 2 ^ dec_step
                            THEN 0 ELSE touched.passes + 1]
         /\ IF pair_i + 1 < len_ucg \div 2
              THEN /\ pair_i' = pair_i + 1
                   /\ UNCHANGED <<ucg_index, dec_step, pc>>
            ELSE IF ucg_index + 1 < 2 ^ dec_step
              THEN /\ pair_i' = 0
                   /\ ucg_index' = ucg_index + 1
                   /\ UNCHANGED <<dec_step, pc>>
            ELSE IF dec_step + 1 < num_contr
              THEN /\ pair_i' = 0
                   /\ ucg_index' = 0
                   /\ dec_step' = dec_step + 1
                   /\ UNCHANGED pc
            ELSE /\ pc' = "place"
                 /\ UNCHANGED <<pair_i, ucg_index, dec_step>>
  /\ UNCHANGED <<gate_list, up_to_diagonal, error, num_qubits, circuit, qc, call>>
  /\ UNCHANGED <<passVars, tlVars>>

\* UCG._dec_ucg after _dec_ucg_help: placing the gates
dec_ucg_place ==
  /\ pc = "place"
  /\ circuit' = PlaceGates(single_qubit_gates, 0)
                \o (IF ~up_to_diagonal THEN <<DiagOp(diag)>> ELSE <<>>)
  /\ pc' = "returned"
  /\ UNCHANGED <<gate_list, up_to_diagonal, error, num_qubits,
                 single_qubit_gates, diag, dec_step, ucg_index, pair_i, qc, call,
                 demux, touched>>
  /\ UNCHANGED <<passVars, tlVars>>

NextUCG ==
  \/ UCGNew
  \/ \E q_controls \in QControls, q_target \in QTargets : ucg(q_controls, q_target)
  \/ dec_ucg_begin
  \/ \E lp \in LapackChoices : dec_ucg_help(lp)
  \/ dec_ucg_place

\* ------------------------------------------------------------------------
\* the unitary of a circuit over q_target and the controls
\* ------------------------------------------------------------------------

Bit(c, j) == (c \div (2 ^ j)) % 2

\* the 2x2 block of operation o on the target when the controls hold c
OpBlock(o, c) ==
  IF o.op = "cx" THEN (IF Bit(c, o.ctrl - 1) = 1 THEN XMat ELSE IdMat)
  ELSE IF o.op = "diag" THEN Mat(o.d[2 * c + 1], NumZero, NumZero, o.d[2 * c + 2])
  ELSE o.m

RECURSIVE CircuitBlock(_, _, _)
CircuitBlock(circ, c, n) ==
  IF n = 0 THEN IdMat
  ELSE dot(OpBlock(circ[n], c), CircuitBlock(circ, c, n - 1))

DiagBlock(dg, c) == Mat(dg[2 * c + 1], NumZero, NumZero, dg[2 * c + 2])

ControlStates == 0 .. (2 ^ (num_qubits - 1) - 1)

\* C1: for every valid gate_list the circuit returned by _dec_ucg equals
\* the target diag(U_0, ..., U_{2^k-1}) when up_to_diagonal is False, and
\* diag . circuit equals the target when up_to_diagonal is True
C1_ExactTarget ==
  pc = "returned" =>
    \A c \in ControlStates :
      MatEq(IF up_to_diagonal
              THEN dot(DiagBlock(diag, c), CircuitBlock(circuit, c, Len(circuit)))
              ELSE CircuitBlock(circuit, c, Len(circuit)),
            gate_list.items[c + 1].m)

\* the global phase the circuit is off by: exp(i pi/4) per CNOT
PhaseOff == NumRoot(PiQuarter * (2 ^ (num_qubits - 1) - 1))

\* with one control or more, the circuit (diag . circuit when
\* up_to_diagonal) equals the target times PhaseOff
UpToPhase ==
  (pc = "returned" /\ num_qubits > 1) =>
    \A c \in ControlStates :
      MatEq(IF up_to_diagonal
              THEN dot(DiagBlock(diag, c), CircuitBlock(circuit, c, Len(circuit)))
              ELSE CircuitBlock(circuit, c, Len(circuit)),
            MatScale(gate_list.items[c + 1].m, PhaseOff))

IsUnitary(m) == MatEq(dot(ct(m), m), IdMat) /\ MatEq(dot(m, ct(m)), IdMat)

\* d = diag(sqrt(+i), sqrt(-i))
BergholmD == Mat(NumRoot(PiQuarter), NumZero, NumZero, NumRoot(0 - PiQuarter))

\* C14: the v, u, r returned by _demultiplex_single_uc(a, b) are unitary and
\* give back a = r^dagger u d v and b = r u d^dagger v with
\* d = diag(sqrt(+i), sqrt(-i))
C14_RoundTrip ==
  demux.called =>
    /\ IsUnitary(demux.v)
    /\ IsUnitary(demux.u)
    /\ IsUnitary(demux.r)
    /\ MatEq(demux.a, dot(dot(dot(ct(demux.r), demux.u), BergholmD), demux.v))
    /\ MatEq(demux.b, dot(dot(dot(demux.r, demux.u), ct(BergholmD)), demux.v))

\* a call whose a b^dagger is not diagonal, so that u holds proper
\* eigenvectors, after the first pair of the list
C14_Witness ==
  /\ demux.called
  /\ ~IsDiagonal(dot(demux.a, ct(demux.b)))
  /\ ~IsDiagonal(demux.u)
  /\ pair_i + ucg_index + dec_step > 0

\* UCG(gate_list) went through with a gate list
Built == pc \in {"constructed", "help", "place", "returned"}

\* gate_list passes every test of UCG.__init__ that precedes the isometry test
WellShaped ==
  /\ gate_list.is_list
  /\ \A j \in 1 .. Len(gate_list.items) : gate_list.items[j].shape = <<2, 2>>
  /\ \E k \in 0 .. (MaxControls + 2) : Len(gate_list.items) = 2 ^ k

\* C15 as stated: the isometry check is true iff the norm of M^dagger M - I
\* is strictly less than eps, so a gate whose deviation is eps or more,
\* exactly eps included, makes UCG construction fail
C15_StrictlyLess ==
  /\ Built =>
       \A j \in 1 .. Len(gate_list.items) : IsometryError(gate_list.items[j]) < EPS
  /\ (pc = "raised" /\ WellShaped) =>
       \E j \in 1 .. Len(gate_list.items) : IsometryError(gate_list.items[j]) >= EPS

\* C15: the isometry check is true iff the norm of M^dagger M - I is at
\* most eps: a gate whose deviation exceeds eps makes UCG construction fail
\* with "A controlled gate is not unitary.", a gate whose deviation is
\* exactly eps is accepted, and so is the identity
C15_AtMostEps ==
  /\ Built =>
       \A j \in 1 .. Len(gate_list.items) : IsometryError(gate_list.items[j]) <= EPS
  /\ (pc = "raised" /\ WellShaped) =>
       /\ error = QiskitError("A controlled gate is not unitary.")
       /\ \E j \in 1 .. Len(gate_list.items) : IsometryError(gate_list.items[j]) > EPS
  /\ (pc = "raised" /\ error = QiskitError("A controlled gate is not unitary.")) =>
       \E j \in 1 .. Len(gate_list.items) : IsometryError(gate_list.items[j]) > EPS
  /\ (pc = "raised" /\ gate_list.is_list) => gate_list.items # <<Gate(GI, 0)>>

\* UCG was constructed from a gate whose deviation is exactly eps
C15_Witness ==
  /\ pc = "constructed"
  /\ \E j \in 1 .. Len(gate_list.items) : IsometryError(gate_list.items[j]) = EPS

\* the circuit _dec_ucg returned, without the diagonal gate at its end
Leaves == IF up_to_diagonal THEN circuit ELSE SubSeq(circuit, 1, Len(circuit) - 1)

OpsNamed(circ, nm) == {j \in 1 .. Len(circ) : circ[j].op = nm}

\* C16: with k >= 1 controls the circuit holds exactly 2^k single-qubit
\* gates and 2^k - 1 C-NOTs, alternating gate, C-NOT, gate, ..., gate with no
\* C-NOT after the last gate and every C-NOT on the target; [I, X] gives
\* exactly one C-NOT
C16_Alternating ==
  (pc = "returned" /\ num_qubits > 1) =>
    LET k == num_qubits - 1
    IN  /\ Cardinality(OpsNamed(circuit, "squ")) = 2 ^ k
        /\ Cardinality(OpsNamed(circuit, "cx")) = 2 ^ k - 1
        /\ Len(Leaves) = 2 ^ (k + 1) - 1
        /\ \A j \in 1 .. Len(Leaves) :
             IF j % 2 = 1 THEN Leaves[j].op = "squ"
             ELSE Leaves[j].op = "cx" /\ Leaves[j].tgt = 0 /\ Leaves[j].ctrl # 0
        /\ Leaves[Len(Leaves)].op = "squ"
        /\ Matrices(gate_list.items) = <<GI, GX>> =>
             Cardinality(OpsNamed(circuit, "cx")) = 1

\* the circuit of [I, X] was returned and holds one C-NOT between two gates
C16_Witness ==
  /\ pc = "returned"
  /\ Matrices(gate_list.items) = <<GI, GX>>
  /\ Len(Leaves) = 3
  /\ Leaves[2].op = "cx"

\* bit j of the binary-reflected Gray code i XOR (i >> 1)
GrayBit(i, j) == (Bit(i, j) + Bit(i, j + 1)) % 2

\* C20: the C-NOT after leaf i (0 <= i <= 2^k - 2) is controlled by the
\* control whose index t is the number of trailing zero bits of i + 1; t
\* is in 0 .. k-1 and is the one bit in which the Gray codes of i and i + 1
\* differ
C20_GrayCode ==
  (pc = "returned" /\ num_qubits > 1) =>
    LET k == num_qubits - 1
    IN  \A i \in 0 .. (2 ^ k - 2) :
          LET t == circuit[2 * (i + 1)].ctrl - 1
          IN  /\ circuit[2 * (i + 1)].op = "cx"
              /\ t \in 0 .. (k - 1)
              /\ (i + 1) % (2 ^ t) = 0
              /\ (i + 1) % (2 ^ (t + 1)) # 0
              /\ {j \in 0 .. k : GrayBit(i, j) # GrayBit(i + 1, j)} = {t}

\* a circuit over two controls: the C-NOTs after leaves 0, 1, 2 are
\* controlled by controls 0, 1, 0
C20_Witness ==
  /\ pc = "returned"
  /\ num_qubits = 3
  /\ circuit[2].ctrl = 1
  /\ circuit[4].ctrl = 2
  /\ circuit[6].ctrl = 1

\* C21 as stated: without up_to_diagonal the circuit ends with a diagonal
\* gate equal to diag for every k >= 0; with up_to_diagonal it holds no
\* diagonal gate and diag has length 2^(k+1)
C21_DiagonalGateForEveryK ==
  pc = "returned" =>
    /\ Len(diag) = 2 ^ num_qubits
    /\ IF up_to_diagonal
         THEN OpsNamed(circuit, "diag") = {}
         ELSE /\ Len(circuit) >= 1
              /\ circuit[Len(circuit)] = DiagOp(diag)

\* C21: with one control or more and without up_to_diagonal the circuit
\* ends with its only diagonal gate, equal to diag; with up_to_diagonal, and
\* without controls in either case, the circuit holds no diagonal gate; diag
\* has length 2^(k+1) and is all ones when there is no control
C21_DiagonalGate ==
  pc = "returned" =>
    /\ Len(diag) = 2 ^ num_qubits
    /\ IF up_to_diagonal \/ num_qubits = 1
         THEN OpsNamed(circuit, "diag") = {}
         ELSE /\ OpsNamed(circuit, "diag") = {Len(circuit)}
              /\ circuit[Len(circuit)].d = diag
    /\ num_qubits = 1 =>
         /\ \A j \in 1 .. Len(diag) : NumEq(diag[j], NumRoot(0))
         /\ Len(circuit) = 1
         /\ circuit[1].op = "u3"

\* a circuit over one control or more ends with a diagonal gate that is
\* not the identity
C21_Witness ==
  /\ pc = "returned"
  /\ ~up_to_diagonal
  /\ num_qubits > 1
  /\ circuit[Len(circuit)].op = "diag"
  /\ \E j \in 1 .. Len(diag) : ~NumEq(circuit[Len(circuit)].d[j], NumRoot(0))

\* the factor the fold of r puts on entry j (0-based) of the diagonal while
\* pair i of the last group of a step is demultiplexed
FoldFactor(r, len_ucg, i, j) ==
  LET off == j % (2 * len_ucg)
  IN  IF off = 2 * i THEN NumMul(NumConj(r[1][1]), rz(PiHalf)[1][1])
      ELSE IF off = 2 * i + 1 THEN NumMul(NumConj(r[2][2]), rz(PiHalf)[1][1])
      ELSE IF off = len_ucg + 2 * i THEN NumMul(r[1][1], rz(PiHalf)[2][2])
      ELSE IF off = len_ucg + 2 * i + 1 THEN NumMul(r[2][2], rz(PiHalf)[2][2])
      ELSE NumRoot(0)

\* C22 as stated: r is folded into the diagonal only on the final group of
\* the final decomposition step, and the diagonal is not modified at any
\* other point of the recursion
C22_DiagOnlyAtFinalStep ==
  [][(pc = "help" /\ diag' # diag) =>
       (ucg_index = 2 ^ dec_step - 1 /\ dec_step = num_qubits - 2)]_vars

\* C22: while more groups remain at the current step, r is merged into the
\* gates of pair i of the next group and the diagonal is left alone; on the
\* last group of every step r is folded into the diagonal and no gate but
\* the demultiplexed pair changes
C22_MergeOrFold ==
  [][pc = "help" =>
       LET len_ucg == 2 ^ (num_qubits - 1 - dec_step)
           ia == ucg_index * len_ucg + pair_i + 1
           ib == ia + len_ucg \div 2
           r == demux'.r
       IN  IF ucg_index < 2 ^ dec_step - 1
             THEN /\ diag' = diag
                  /\ MatEq(single_qubit_gates'[ia + len_ucg],
                           MatScale(dot(single_qubit_gates[ia + len_ucg], ct(r)),
                                    rz(PiHalf)[1][1]))
                  /\ MatEq(single_qubit_gates'[ib + len_ucg],
                           MatScale(dot(single_qubit_gates[ib + len_ucg], r),
                                    rz(PiHalf)[2][2]))
                  /\ \A j \in 1 .. Len(single_qubit_gates) :
                       j \notin {ia, ib, ia + len_ucg, ib + len_ucg} =>
                         single_qubit_gates'[j] = single_qubit_gates[j]
             ELSE /\ \A j \in 1 .. Len(single_qubit_gates) :
                       j \notin {ia, ib} => single_qubit_gates'[j] = single_qubit_gates[j]
                  /\ \A j \in 1 .. Len(diag) :
                       NumEq(diag'[j],
                             NumMul(diag[j], FoldFactor(r, len_ucg, pair_i, j - 1)))]_vars

\* in the second step over two controls the first group was demultiplexed
\* and its r merged into the second, after the first step had folded its r
\* into the diagonal
C22_Witness ==
  /\ pc = "help"
  /\ dec_step = 1
  /\ ucg_index = 1
  /\ demux.called
  /\ ~MatEq(demux.r, IdMat)
  /\ \E j \in 1 .. Len(diag) : ~NumEq(diag[j], NumRoot(0))

\* the indices used in the current dec_step before the pass being taken
GatesSeen == IF touched.passes = 0 THEN {} ELSE touched.gates

DiagSeen == IF touched.passes = 0 THEN {} ELSE touched.diag

\* C26: in every dec_step the pairs (shift + i, shift + len_ucg // 2 + i)
\* partition the indices 0 .. 2^k - 1 of single_qubit_gates: the two
\* indices of a pass differ, lie within 0 .. 2^k - 1 and were used by no
\* earlier pass of the step; when the step ends every index has been used;
\* a pass overwrites no gate but its pair and the two it merges r into.
C26_PairsPartition ==
  [][pc = "help" =>
       LET n == 2 ^ (num_qubits - 1)
           p == touched'.pair
       IN  /\ Len(p) = 2
           /\ p[1] # p[2]
           /\ Range(p) \subseteq 0 .. n - 1
           /\ Range(p) \cap GatesSeen = {}
           /\ touched'.passes = 0 => touched'.gates = 0 .. n - 1
           /\ \A j \in 0 .. n - 1 :
                j \notin Range(p) \cup Range(touched'.merged)
                  => single_qubit_gates'[j + 1] = single_qubit_gates[j + 1]]_vars

\* C26 witness: the first step over four gates has ended, its two pairs
\* having used the four indices
C26_Witness ==
  /\ pc = "help"
  /\ num_qubits = 3
  /\ dec_step = 1
  /\ touched.passes = 0
  /\ touched.gates = 0 .. 3
  /\ touched.pair = <<1, 3>>

UnitModulus(x) == NumEq(NumMul(x, NumConj(x)), NumRoot(0))

\* C27: in every dec_step the passes for the last group write each of the
\* 2^(k+1) entries of diag exactly once: the indices one pass writes are
\* 4 * num_ucgs different ones within 0 .. 2^(k+1) - 1, written by no
\* earlier pass of the step; when the step ends every index has been
\* written; the entries not written keep their value and every entry keeps
\* modulus 1.
C27_DiagOncePerStep ==
  [][(pc = "help" /\ ucg_index = 2 ^ dec_step - 1) =>
       LET n == 2 ^ num_qubits
           f == touched'.folded
       IN  /\ Len(f) = 4 * 2 ^ dec_step
           /\ Cardinality(Range(f)) = Len(f)
           /\ Range(f) \subseteq 0 .. n - 1
           /\ Range(f) \cap DiagSeen = {}
           /\ touched'.passes = 0 => touched'.diag = 0 .. n - 1
           /\ Len(diag') = n
           /\ \A j \in 0 .. n - 1 :
                /\ UnitModulus(diag'[j + 1])
                /\ j \notin Range(f) => diag'[j + 1] = diag[j + 1]]_vars

\* C27 witness: the second step over four gates has ended with all eight
\* entries of diag written, not all of them by a trivial factor
C27_Witness ==
  /\ num_qubits = 3
  /\ dec_step = 1
  /\ pc = "place"
  /\ touched.passes = 0
  /\ touched.diag = 0 .. 7
  /\ Len(touched.folded) = 8
  /\ \E j \in 1 .. Len(diag) : ~NumEq(diag[j], NumRoot(0))

\* C28: when r is merged into the following group, the two gates modified
\* are the a and b positions of pair i of group ucg_index + 1 of the same
\* step; they lie within 0 .. 2^k - 1, have not been demultiplexed in this
\* step (no gate already replaced by v or u is altered) and are
\* demultiplexed before the step ends.
C28_MergeIntoNextGroup ==
  [][pc = "help" =>
       LET n == 2 ^ (num_qubits - 1)
           len_ucg == 2 ^ (num_qubits - 1 - dec_step)
           m == touched'.merged
       IN  /\ ucg_index < 2 ^ dec_step - 1 =>
                /\ m = <<(ucg_index + 1) * len_ucg + pair_i,
                         (ucg_index + 1) * len_ucg + len_ucg \div 2 + pair_i>>
                /\ Range(m) \subseteq 0 .. n - 1
                /\ Range(m) \cap touched'.gates = {}
                /\ touched'.passes # 0
                /\ dec_step' = dec_step
           /\ ucg_index = 2 ^ dec_step - 1 => m = <<>>
           /\ \A j \in GatesSeen :
                single_qubit_gates'[j + 1] = single_qubit_gates[j + 1]
           /\ touched'.passes = 0 => touched'.pending = {}]_vars

\* C28 witness: r, not the identity, has been merged into the gates 2 and 3
\* of the second group, which are still to be demultiplexed
C28_Witness ==
  /\ pc = "help"
  /\ dec_step = 1
  /\ ucg_index = 1
  /\ touched.merged = <<2, 3>>
  /\ touched.pending = {2, 3}
  /\ touched.gates = {0, 1}
  /\ demux.called
  /\ ~MatEq(demux.r, IdMat)

\* the conditions C2 calls malformed input
C2_Malformed ==
  \/ ~gate_list.is_list
  \/ Len(gate_list.items) = 0
  \/ \A k \in 0 .. (MaxControls + 2) : Len(gate_list.items) # 2 ^ k
  \/ \E j \in 1 .. Len(gate_list.items) : gate_list.items[j].shape # <<2, 2>>
  \/ \E j \in 1 .. Len(gate_list.items) : IsometryError(gate_list.items[j]) > EPS

\* C2: UCG(gate_list) raises QiskitError and creates no gate when gate_list
\* is not a list, is empty, has a length that is no power of two, holds a
\* gate that is not 2x2 or a gate that is not unitary; it creates the gate
\* exactly when none of these holds
C2_Construction ==
  /\ pc = "raised" =>
       (error.kind = "QiskitError" /\ num_qubits = 0 /\ C2_Malformed)
  /\ pc \in {"constructed", "help", "place", "returned"} =>
       (error = NoError /\ num_qubits >= 1 /\ ~C2_Malformed)

\* UCG(gate_list) has raised on a list of three gates
C2_Witness ==
  /\ pc = "raised"
  /\ gate_list.is_list
  /\ Len(gate_list.items) = 3
  /\ error.kind = "QiskitError"

\* C3: circuit.ucg with an empty gate_list raises QiskitError and appends
\* nothing
C3_EmptyRejected ==
  (pc \in {"appended", "ucg_raised"} /\ Len(gate_list.items) = 0) =>
    (pc = "ucg_raised" /\ error.kind = "QiskitError" /\ qc = <<>>)

\* C4: circuit.ucg appends only if len(gate_list) = 2^len(q_controls); on a
\* length that is no power of two or differs from 2^len(q_controls) it
\* raises QiskitError and leaves the circuit unchanged; on success exactly
\* one operation is appended, on q_target followed by the controls in their
\* order, on k + 1 qubits for 2^k gates
C4_LengthMatch ==
  /\ pc = "appended" =>
       /\ Len(gate_list.items) = 2 ^ Len(call.q_controls.items)
       /\ Len(qc) = 1
       /\ qc[1].qargs = <<call.q_target.items[1]>> \o call.q_controls.items
       /\ qc[1].num_qubits = Len(call.q_controls.items) + 1
       /\ Len(gate_list.items) = 2 ^ (qc[1].num_qubits - 1)
  /\ pc = "ucg_raised" => qc = <<>>
  /\ (/\ pc \in {"appended", "ucg_raised"}
      /\ gate_list.is_list
      /\ Len(gate_list.items) # 2 ^ Len(call.q_controls.items))
     => (pc = "ucg_raised" /\ error.kind = "QiskitError")

\* ------------------------------------------------------------------------
\* unitary_synthesis.py
\* ------------------------------------------------------------------------

\* Python's None where a number is expected
NoneVal == -1

\* math.inf
Inf == 1000000

\* a property BackendProperties holds no data for
Missing == -2

\* fidelities and errors are in units of 1/100
ExactFidelity == 100

\* natural_direction = None
NoDirection == <<>>

KakGateNames == {"cx", "cz", "iswap", "rxx", "ecr"}

\* set(basis_gates or [])
BasisSet(bg) == IF bg.is_none THEN {} ELSE bg.names

\* _choose_kak_gate falling back on cx when the basis offers no two-qubit
\* gate: the faulty variant C5 is told apart from
choose_kak_gate_default_cx(bg) ==
  LET kak_gates == BasisSet(bg) \cap KakGateNames
  IN  IF kak_gates # {} THEN kak_gates ELSE {"cx"}

\* _choose_kak_gate: the gates kak_gates.pop() may return ("None" if none)
choose_kak_gate(bg) ==
  LET kak_gates == BasisSet(bg) \cap KakGateNames
  IN  IF kak_gates # {} THEN kak_gates ELSE {"None"}

euler_basis_names ==
  << [basis |-> "U3", gates |-> {"u3"}],
     [basis |-> "U1X", gates |-> {"u1", "rx"}],
     [basis |-> "RR", gates |-> {"r"}],
     [basis |-> "ZYZ", gates |-> {"rz", "ry"}],
     [basis |-> "ZXZ", gates |-> {"rz", "rx"}],
     [basis |-> "XYX", gates |-> {"rx", "ry"}] >>

\* the last matching entry taken for the first: the faulty variant C12 is
\* told apart from
choose_euler_basis_last(bg) ==
  LET hits == {j \in 1 .. Len(euler_basis_names) :
                 euler_basis_names[j].gates \subseteq BasisSet(bg)}
  IN  IF hits = {} THEN "None"
      ELSE euler_basis_names[CHOOSE j \in hits : \A l \in hits : j >= l].basis

\* _choose_euler_basis
choose_euler_basis(bg) ==
  LET hits == {j \in 1 .. Len(euler_basis_names) :
                 euler_basis_names[j].gates \subseteq BasisSet(bg)}
  IN  IF hits = {} THEN "None"
      ELSE euler_basis_names[CHOOSE j \in hits : \A l \in hits : j <= l].basis

\* 4x4 matrices, rows and columns in the order |00>, |01>, |10>, |11>
MatI4 == <<<<1, 0, 0, 0>>, <<0, 1, 0, 0>>, <<0, 0, 1, 0>>, <<0, 0, 0, 1>>>>
MatCX01 == <<<<1, 0, 0, 0>>, <<0, 0, 0, 1>>, <<0, 0, 1, 0>>, <<0, 1, 0, 0>>>>
MatCX10 == <<<<1, 0, 0, 0>>, <<0, 1, 0, 0>>, <<0, 0, 0, 1>>, <<0, 0, 1, 0>>>>
MatSWAP == <<<<1, 0, 0, 0>>, <<0, 0, 1, 0>>, <<0, 1, 0, 0>>, <<0, 0, 0, 1>>>>

\* su4_mat_mm[[1, 2]] = su4_mat_mm[[2, 1]]
SwapRows(M) == <<M[1], M[3], M[2], M[4]>>

\* the columns left as they are: the faulty variant C6 is told apart from
SwapColumnsNot(M) == M

\* su4_mat_mm[:, [1, 2]] = su4_mat_mm[:, [2, 1]]
SwapColumns(M) ==
  <<<<M[1][1], M[1][3], M[1][2], M[1][4]>>, <<M[2][1], M[2][3], M[2][2], M[2][4]>>,
    <<M[3][1], M[3][3], M[3][2], M[3][4]>>, <<M[4][1], M[4][3], M[4][2], M[4][4]>>>>

\* the graph's nodes, by identifier
NodeTable ==
  [u1   |-> [name |-> "unitary", qargs |-> <<0>>, matrix |-> "U2x2"],
   u2a  |-> [name |-> "unitary", qargs |-> <<0, 1>>, matrix |-> MatCX01],
   u2b  |-> [name |-> "unitary", qargs |-> <<1, 0>>, matrix |-> MatCX10],
   uid  |-> [name |-> "unitary", qargs |-> <<0, 1>>, matrix |-> MatI4],
   swap |-> [name |-> "swap", qargs |-> <<0, 1>>, matrix |-> MatSWAP],
   u3q  |-> [name |-> "unitary", qargs |-> <<0, 1, 2>>, matrix |-> "U8x8"],
   cx   |-> [name |-> "cx", qargs |-> <<0, 1>>, matrix |-> MatCX01]]

NodeIds == DOMAIN NodeTable

MaxNodes == 2

MaxRuns == 2

Dags ==
  {[n \in S |-> NodeTable[n]] : S \in {T \in SUBSET NodeIds : Cardinality(T) <= MaxNodes}}

BasisChoices ==
  {[is_none |-> TRUE, names |-> {}]} \cup
  {[is_none |-> FALSE, names |-> ns] :
     ns \in {{}, {"u3"}, {"cx", "id"}, {"u3", "cx"}, {"u3", "cz"},
             {"rz", "ry", "cz", "cx"}}}

FidelityChoices == {NoneVal, 90, ExactFidelity}

Pairs == {<<0, 1>>, <<1, 0>>}

NoProps == [given |-> FALSE, len |-> <<>>, err |-> <<>>]

PairTable(a, b) == [pr \in Pairs |-> IF pr = <<0, 1>> THEN a ELSE b]

PropsChoices ==
  {[given |-> TRUE, len |-> PairTable(l[1], l[2]), err |-> PairTable(e[1], e[2])] :
     l \in {<<3, 5>>, <<5, 3>>, <<3, 3>>, <<Missing, 3>>, <<3, Missing>>,
            <<Missing, Missing>>},
     e \in {<<5, 20>>, <<20, Missing>>, <<Missing, 5>>}}


BackendPropertyError == [kind |-> "BackendPropertyError", msg |-> "no data"]

IndexError == [kind |-> "IndexError", msg |-> "list index out of range"]

\* a or b
PyOr(a, b) == IF a # NoneVal /\ a # 0 THEN a ELSE b

\* every node of the graph: the faulty variant C10 is told apart from
all_nodes(g) == DOMAIN g

\* dag.named_nodes('unitary', 'swap')
named_nodes(g) == {n \in DOMAIN g : g[n].name \in {"unitary", "swap"}}

\* the number of native gates the two-qubit decomposer needs for M
NumBasis(M) ==
  IF M = MatI4 THEN 0 ELSE IF M \in {MatCX01, MatCX10} THEN 1 ELSE 3

\* decomposer2q(M, basis_fidelity=bf): the synthesized circuit, its
\* two-qubit operations given by their qubit indices
decomposer2q(M, bf, dir) ==
  [by |-> "decomposer2q", of |-> M, basis_fidelity |-> bf,
   two_qubit_ops |-> Tup([j \in 1 .. NumBasis(M) |-> dir])]

\* where the native gates land: substitute_node_with_dag maps wires[j] to
\* node.qargs[j]
Landing(ops, ws, qargs) ==
  LET pos(w) == CHOOSE j \in 1 .. Len(ws) : ws[j] = w
  IN  Tup([j \in 1 .. Len(ops) |-> <<qargs[pos(ops[j][1])], qargs[pos(ops[j][2])]>>])

\* wires = None
NoneWires == <<>>

\* synth_dag.wires
DagWires(node) == Tup([j \in 1 .. Len(node.qargs) |-> j - 1])

\* synth_dag.wires[::-1]
ReversedWires(node) ==
  Tup([j \in 1 .. Len(node.qargs) |-> Len(node.qargs) - j])

\* dag.substitute_node_with_dag(node, synth_dag, wires=wires): wires=None
\* stands for the wires of synth_dag in their order
Substituted(synth, w, reversed, node) ==
  LET used == IF w = NoneWires THEN DagWires(node) ELSE w
  IN  [name |-> "synth", by |-> synth.by, matrix |-> synth.of,
       basis_fidelity |-> synth.basis_fidelity, qargs |-> node.qargs,
       reversed |-> reversed, wires |-> used,
       two_qubit_gates |-> Landing(synth.two_qubit_ops, used, node.qargs)]

\* the value of wires left by the pass before: the faulty variant C24 is
\* told apart from
loop_wires_kept(w) == w

\* line 126, at the head of the loop body: wires = None
loop_wires(w) == NoneWires

\* the two-qubit decomposer called for a node on three qubits: the faulty
\* variant C23 is told apart from
isometry_by_decomposer2q(node) ==
  [by |-> "decomposer2q", of |-> node.matrix, basis_fidelity |-> NoneVal,
   two_qubit_ops |-> <<>>]

\* circuit_to_dag(isometry.Isometry(node.op.to_matrix(), 0, 0).definition)
isometry_definition(node) ==
  [by |-> "isometry", of |-> node.matrix, basis_fidelity |-> NoneVal,
   two_qubit_ops |-> <<>>]

\* self._backend_props.gate_length('cx', qubits): Missing stands for
\* BackendPropertyError
gate_length(qubits) == backend_props.len[qubits]

\* self._backend_props.gate_error('cx', qubits)
gate_error(qubits) == backend_props.err[qubits]

\* a tie taken for shorter: the faulty variant C8 is told apart from
ShorterOrEqual(a, b) == a <= b

\* len_0_1 < len_1_0
Shorter(a, b) == a < b

\* lines 152-155
natural_direction_of(len_0_1, len_1_0) ==
  IF Shorter(len_0_1, len_1_0) THEN <<0, 1>>
  ELSE IF Shorter(len_1_0, len_0_1) THEN <<1, 0>>
  ELSE NoDirection

\* self._fidelity or physical_gate_fidelity
basis_fidelity_of(fidelity, physical_gate_fidelity) ==
  PyOr(fidelity, physical_gate_fidelity)

\* the body of the loop of run() for a node on two qubits, decomposer2q given
run_2q(node) ==
  LET q0 == node.qargs[1]
      q1 == node.qargs[2]
      consult == layout /\ backend_props.given
      g01 == IF consult THEN gate_length(<<q0, q1>>) ELSE Missing
      g10 == IF consult THEN gate_length(<<q1, q0>>) ELSE Missing
      len_0_1 == IF g01 = Missing THEN Inf ELSE g01
      len_1_0 == IF g10 = Missing THEN Inf ELSE g10
      natural_direction ==
        IF consult THEN natural_direction_of(len_0_1, len_1_0) ELSE NoDirection
      nd_qubits ==
        IF natural_direction = NoDirection THEN <<>>
        ELSE <<node.qargs[natural_direction[1] + 1], node.qargs[natural_direction[2] + 1]>>
      err == IF natural_direction = NoDirection THEN Missing ELSE gate_error(nd_qubits)
      asked == (IF consult
                  THEN {<<"cx", <<q0, q1>>, "gate_length">>,
                        <<"cx", <<q1, q0>>, "gate_length">>}
                  ELSE {})
               \cup (IF natural_direction # NoDirection
                       THEN {<<"cx", nd_qubits, "gate_error">>} ELSE {})
      locals == [len_0_1 |-> len_0_1, len_1_0 |-> len_1_0,
                 natural_direction |-> natural_direction]
  IN  IF natural_direction # NoDirection /\ err = Missing
        THEN [status |-> "raised", error |-> BackendPropertyError, asked |-> asked,
              locals |-> locals]
      ELSE
        LET physical_gate_fidelity ==
              IF natural_direction = NoDirection THEN NoneVal ELSE ExactFidelity - err
            basis_fidelity == basis_fidelity_of(synthesis_fidelity, physical_gate_fidelity)
            su4_mat == node.matrix
            first == decomposer2q(su4_mat, basis_fidelity, dec_dir)
            locals2 == [len_0_1 |-> len_0_1, len_1_0 |-> len_1_0,
                        natural_direction |-> natural_direction,
                        physical_gate_fidelity |-> physical_gate_fidelity,
                        basis_fidelity |-> basis_fidelity,
                        first_ops |-> first.two_qubit_ops]
        IN  IF natural_direction # NoDirection /\ Len(first.two_qubit_ops) = 0
              THEN [status |-> "raised", error |-> IndexError, asked |-> asked,
                    locals |-> locals2]
            ELSE IF natural_direction # NoDirection
                    /\ first.two_qubit_ops[1] # natural_direction
              THEN LET su4_mat_mm == SwapColumns(SwapRows(su4_mat))
                       second == decomposer2q(su4_mat_mm, basis_fidelity, dec_dir)
                   IN  [status |-> "substituted", error |-> NoError, asked |-> asked,
                        locals |-> locals2,
                        synth |-> second, wires |-> ReversedWires(node),
                        reversed |-> TRUE]
            ELSE [status |-> "substituted", error |-> NoError, asked |-> asked,
                  locals |-> locals2,
                  synth |-> first, wires |-> NoneWires, reversed |-> FALSE]

Skipped == [status |-> "skipped", error |-> NoError, asked |-> {}, locals |-> <<>>]

\* the loop body without the two `continue`s, calling a decomposer that is
\* None: the faulty variant C11 is told apart from
run_node_without_skip(node) ==
  IF (Len(node.qargs) = 1 /\ euler_basis = "None")
       \/ (Len(node.qargs) = 2 /\ kak_gate = "None")
    THEN [status |-> "raised",
          error |-> [kind |-> "TypeError", msg |-> "'NoneType' object is not callable"],
          asked |-> {}, locals |-> <<>>]
  ELSE IF Len(node.qargs) = 1
    THEN [status |-> "substituted", error |-> NoError, asked |-> {}, locals |-> <<>>,
          synth |-> [by |-> "decomposer1q", of |-> node.matrix,
                    basis_fidelity |-> NoneVal, two_qubit_ops |-> <<>>],
          wires |-> NoneWires, reversed |-> FALSE]
  ELSE IF Len(node.qargs) = 2 THEN run_2q(node)
  ELSE [status |-> "substituted", error |-> NoError, asked |-> {}, locals |-> <<>>,
        synth |-> isometry_definition(node), wires |-> NoneWires,
        reversed |-> FALSE]

\* the body of the loop of run() for one node
run_node(node) ==
  IF Len(node.qargs) = 1
    THEN IF euler_basis = "None" THEN Skipped
         ELSE [status |-> "substituted", error |-> NoError, asked |-> {}, locals |-> <<>>,
               synth |-> [by |-> "decomposer1q", of |-> node.matrix,
                         basis_fidelity |-> NoneVal, two_qubit_ops |-> <<>>],
               wires |-> NoneWires, reversed |-> FALSE]
  ELSE IF Len(node.qargs) = 2
    THEN IF kak_gate = "None" THEN Skipped ELSE run_2q(node)
  ELSE [status |-> "substituted", error |-> NoError, asked |-> {}, locals |-> <<>>,
        synth |-> isometry_definition(node), wires |-> NoneWires,
        reversed |-> FALSE]

\* ------------------------------------------------------------------------
\* UnitarySynthesis: actions
\* ------------------------------------------------------------------------

Pending == [status |-> "pending", locals |-> <<>>]

InitPass ==
  /\ basis_gates \in BasisChoices
  /\ synthesis_fidelity \in FidelityChoices
  /\ backend_props \in {NoProps} \cup PropsChoices
  /\ layout \in BOOLEAN
  /\ dec_dir \in Pairs
  /\ dag \in Dags
  /\ dag0 = dag
  /\ ppc = "idle"
  /\ perror = NoError
  /\ euler_basis = "None"
  /\ kak_gate = "None"
  /\ pulse_optimize = FALSE
  /\ todo = {}
  /\ info = [n \in DOMAIN dag |-> Pending]
  /\ runs = 0
  /\ queries = {}
  /\ wires = NoneWires

\* run(dag) up to the loop: the decomposers are chosen
run_begin(kak) ==
  /\ ppc \in {"idle", "done"}
  /\ runs < MaxRuns
  /\ kak \in choose_kak_gate(basis_gates)
  /\ runs' = runs + 1
  /\ euler_basis' = choose_euler_basis(basis_gates)
  /\ kak_gate' = kak
  /\ pulse_optimize' = (kak \in {"cx", "ecr"} /\ backend_props.given)
  /\ todo' = named_nodes(dag)
  /\ dag0' = dag
  /\ info' = [n \in DOMAIN dag |-> Pending]
  /\ ppc' = "loop"
  /\ wires' = NoneWires
  /\ UNCHANGED <<basis_gates, synthesis_fidelity, backend_props, layout, dec_dir,
                 dag, perror, queries>>
  /\ UNCHANGED <<ucgVars, tlVars>>

\* one pass of the loop over dag.named_nodes('unitary', 'swap')
run_loop(n) ==
  /\ ppc = "loop"
  /\ n \in todo
  /\ LET r == run_node(dag[n])
         w == IF r.status = "substituted" /\ r.wires # NoneWires
                THEN r.wires ELSE loop_wires(wires)
     IN  /\ info' = [info EXCEPT ![n] = [status |-> r.status, locals |-> r.locals]]
         /\ queries' = queries \cup r.asked
         /\ perror' = r.error
         /\ wires' = w
         /\ dag' = IF r.status = "substituted"
                     THEN [dag EXCEPT ![n] = Substituted(r.synth, w, r.reversed, dag[n])]
                     ELSE dag
         /\ ppc' = IF r.status = "raised" THEN "raised" ELSE ppc
         /\ todo' = todo \ {n}
  /\ UNCHANGED <<basis_gates, synthesis_fidelity, backend_props, layout, dec_dir,
                 dag0, euler_basis, kak_gate, pulse_optimize, runs>>
  /\ UNCHANGED <<ucgVars, tlVars>>

\* return dag
run_end ==
  /\ ppc = "loop"
  /\ todo = {}
  /\ ppc' = "done"
  /\ UNCHANGED <<basis_gates, synthesis_fidelity, backend_props, layout, dec_dir,
                 dag, dag0, perror, euler_basis, kak_gate, pulse_optimize, todo,
                 info, runs, queries, wires>>
  /\ UNCHANGED <<ucgVars, tlVars>>

NextPass ==
  \/ \E kak \in KakGateNames \cup {"None"} : run_begin(kak)
  \/ \E n \in NodeIds : run_loop(n)
  \/ run_end

\* ------------------------------------------------------------------------
\* UnitarySynthesis: properties
\* ------------------------------------------------------------------------

\* the nodes the current run has taken through the two-qubit branch with a
\* decomposer at hand
Visited2q ==
  {n \in DOMAIN info : /\ info[n].status \in {"substituted", "raised"}
                       /\ Len(dag0[n].qargs) = 2}

\* the calibrated duration of cx on the node's qubits, in the order given
\* by the indices i, j into node.qargs; Inf when there is no data
Duration(n, i, j) ==
  LET d == backend_props.len[<<dag0[n].qargs[i + 1], dag0[n].qargs[j + 1]>>]
  IN  IF d = Missing THEN Inf ELSE d

Calibrated == layout /\ backend_props.given

\* C5: with an empty basis-gate set no node of the graph is substituted and
\* the graph is unchanged, whatever the arities of its nodes
C5_GraphUnchanged == BasisSet(basis_gates) = {} => dag = dag0

\* C5, amended: with an empty basis-gate set no node on one or two qubits
\* is substituted; a unitary node on three qubits or more still is, by the
\* isometry synthesis
C5_SmallNodesUnchanged ==
  BasisSet(basis_gates) = {} =>
    \A n \in DOMAIN dag :
      /\ Len(dag0[n].qargs) <= 2 => dag[n] = dag0[n]
      /\ info[n].status \in {"substituted", "raised"} =>
           (Len(dag0[n].qargs) >= 3 /\ dag[n].by = "isometry")

\* a finished run with an empty basis-gate set that skipped a two-qubit
\* unitary and substituted a three-qubit one
C5_Witness ==
  /\ BasisSet(basis_gates) = {}
  /\ ppc = "done"
  /\ \E n \in DOMAIN dag : /\ dag0[n].name = "unitary"
                           /\ Len(dag0[n].qargs) = 2
                           /\ info[n].status = "skipped"
                           /\ dag[n] = dag0[n]
  /\ \E n \in DOMAIN dag : info[n].status = "substituted" /\ dag[n].by = "isometry"

\* the matrix with basis indices 1 and 2 exchanged in rows and in columns
C6_Exchange(i) == IF i = 2 THEN 3 ELSE IF i = 3 THEN 2 ELSE i

C6_Conjugated(M) ==
  Tup([i \in 1 .. 4 |-> Tup([j \in 1 .. 4 |-> M[C6_Exchange(i)][C6_Exchange(j)]])])

\* the natural direction the calibrated durations of node n give
C6_Natural(n) == IF Duration(n, 0, 1) < Duration(n, 1, 0) THEN <<0, 1>> ELSE <<1, 0>>

\* C6: for a substituted 2-qubit node whose calibrated durations differ, if
\* the decomposer's first output has its native gate against the natural
\* direction, the matrix synthesized is the node's with basis indices 1 and
\* 2 exchanged in rows and columns and the wires are reversed; in either
\* case every native gate of the substituted circuit acts on the node's
\* qubits in the natural direction
C6_DirectionCorrection ==
  \A n \in Visited2q :
    (/\ info[n].status = "substituted"
     /\ Calibrated
     /\ Duration(n, 0, 1) # Duration(n, 1, 0))
    => LET nd == C6_Natural(n)
           landed == <<dag0[n].qargs[nd[1] + 1], dag0[n].qargs[nd[2] + 1]>>
       IN  /\ Len(dag[n].two_qubit_gates) >= 1
           /\ \A j \in 1 .. Len(dag[n].two_qubit_gates) :
                dag[n].two_qubit_gates[j] = landed
           /\ IF info[n].locals.first_ops[1] # nd
                THEN /\ dag[n].matrix = C6_Conjugated(dag0[n].matrix)
                     /\ dag[n].reversed
                ELSE /\ dag[n].matrix = dag0[n].matrix
                     /\ ~dag[n].reversed

\* a node with the shorter duration on (q0,q1), synthesized first on (1,0),
\* substituted with the wires reversed
C6_Witness ==
  \E n \in Visited2q :
    /\ info[n].status = "substituted"
    /\ Calibrated
    /\ Duration(n, 0, 1) < Duration(n, 1, 0)
    /\ info[n].locals.first_ops[1] = <<1, 0>>
    /\ dag[n].reversed
    /\ dag[n].matrix # dag0[n].matrix

C7_Min(a, b) == IF a < b THEN a ELSE b

\* the basis fidelity C7 states, from the requested fidelity and the
\* calibrated error of the natural-direction gate
C7_Stated(n) ==
  LET nd == info[n].locals.natural_direction
      err == IF nd = NoDirection THEN Missing
             ELSE backend_props.err[<<dag0[n].qargs[nd[1] + 1], dag0[n].qargs[nd[2] + 1]>>]
  IN  IF synthesis_fidelity # NoneVal /\ err # Missing
        THEN {C7_Min(synthesis_fidelity, ExactFidelity - err)}
      ELSE IF synthesis_fidelity # NoneVal THEN {synthesis_fidelity}
      ELSE IF err # Missing THEN {ExactFidelity - err}
      ELSE {ExactFidelity, NoneVal}

\* C7: the basis fidelity handed to the 2-qubit decomposer is the minimum of
\* the requested fidelity and 1 - the calibrated error of the
\* natural-direction gate when both are available, the available one when
\* only one is, and exact (1, or None for the decomposer's own default)
\* when neither is
C7_MinFidelity ==
  \A n \in Visited2q :
    "basis_fidelity" \in DOMAIN info[n].locals =>
      info[n].locals.basis_fidelity \in C7_Stated(n)

\* C8: the natural direction of a 2-qubit node is [0,1] when the calibrated
\* duration on (q0,q1) is strictly shorter than on (q1,q0), [1,0] when it is
\* strictly longer, and none when the durations are equal, when both are
\* missing, or when no calibration is consulted
C8_NaturalDirection ==
  \A n \in Visited2q :
    info[n].locals.natural_direction =
      IF ~Calibrated THEN NoDirection
      ELSE IF Duration(n, 0, 1) < Duration(n, 1, 0) THEN <<0, 1>>
      ELSE IF Duration(n, 1, 0) < Duration(n, 0, 1) THEN <<1, 0>>
      ELSE NoDirection

\* a node on (1,0) whose calibrated duration is shorter in its second order
\* and a node with equal durations and no direction
C8_Witness ==
  \E n \in Visited2q :
    /\ Calibrated
    /\ \/ /\ dag0[n].qargs = <<1, 0>>
          /\ backend_props.len[<<0, 1>>] # Missing
          /\ backend_props.len[<<1, 0>>] # Missing
          /\ backend_props.len[<<0, 1>>] < backend_props.len[<<1, 0>>]
          /\ info[n].locals.natural_direction = <<1, 0>>
       \/ /\ backend_props.len[<<0, 1>>] # Missing
          /\ backend_props.len[<<0, 1>>] = backend_props.len[<<1, 0>>]
          /\ info[n].locals.natural_direction = NoDirection
          /\ info[n].status = "substituted"

\* C9: a calibration query without data, for a duration or an error in
\* either direction, never aborts the pass: the node is still substituted
C9_MissingDataNeverAborts ==
  \A n \in Visited2q :
    (Calibrated /\ \E pr \in Pairs : Missing \in {backend_props.len[pr],
                                                  backend_props.err[pr]})
    => ~(info[n].status = "raised" /\ perror.kind = "BackendPropertyError")

\* C10: a run on a graph without unitary and swap nodes leaves the graph
\* unchanged, so a second run on a synthesized graph changes nothing
C10_Idempotent ==
  (\A n \in DOMAIN dag0 : dag0[n].name \notin {"unitary", "swap"}) => dag = dag0

\* a second run finished on the graph a first run synthesized
C10_Witness ==
  /\ runs = 2
  /\ ppc = "done"
  /\ \E n \in DOMAIN dag0 : dag0[n].name = "synth"
  /\ \A n \in DOMAIN dag0 : dag0[n].name \notin {"unitary", "swap"}
  /\ dag = dag0

\* C23: every unitary node on three or more qubits the loop has reached is
\* substituted by the isometry synthesis of its own matrix on its own
\* qubits, whatever the basis-gate set; a finished run has reached them all
C23_WideNodesIsometry ==
  \A n \in DOMAIN dag :
    (Len(dag0[n].qargs) >= 3 /\ dag0[n].name = "unitary") =>
      /\ ppc = "done" => info[n].status = "substituted"
      /\ info[n].status # "pending" =>
           /\ info[n].status = "substituted"
           /\ dag[n].name = "synth"
           /\ dag[n].by = "isometry"
           /\ dag[n].matrix = dag0[n].matrix
           /\ dag[n].qargs = dag0[n].qargs

\* C23 witness: neither an Euler basis nor a native two-qubit gate was
\* found, a node on one qubit was skipped and the node on three qubits was
\* substituted by the isometry synthesis
C23_Witness ==
  /\ ppc = "done"
  /\ euler_basis = "None"
  /\ kak_gate = "None"
  /\ \E n \in DOMAIN dag : /\ Len(dag0[n].qargs) = 3
                           /\ dag[n].name = "synth"
                           /\ dag[n].by = "isometry"
  /\ \E n \in DOMAIN dag : Len(dag0[n].qargs) = 1 /\ info[n].status = "skipped"

\* C24: a substitution uses the wires of the synthesized circuit reversed
\* only for a node on two qubits that was synthesized again against its
\* natural direction; every other substitution uses them in their order,
\* whatever the pass of the loop before did
C24_DefaultWires ==
  \A n \in DOMAIN dag :
    info[n].status = "substituted" =>
      /\ dag[n].reversed =>
           /\ Len(dag0[n].qargs) = 2
           /\ Calibrated
           /\ info[n].locals.natural_direction # NoDirection
           /\ info[n].locals.first_ops[1] # info[n].locals.natural_direction
           /\ dag[n].wires = <<1, 0>>
      /\ ~dag[n].reversed =>
           /\ Len(dag[n].wires) = Len(dag0[n].qargs)
           /\ \A j \in 1 .. Len(dag[n].wires) : dag[n].wires[j] = j - 1
           /\ \A j \in 1 .. Len(dag[n].two_qubit_gates) :
                dag[n].two_qubit_gates[j] =
                  <<dag0[n].qargs[dec_dir[1] + 1], dag0[n].qargs[dec_dir[2] + 1]>>

\* C24 witness: in one run a node was substituted with the wires reversed
\* and, in a later pass of the loop, another node on two qubits with its
\* native gates in the order the decomposer gave
C24_Witness ==
  /\ ppc = "loop"
  /\ wires = NoneWires
  /\ \E n1, n2 \in DOMAIN dag :
       /\ n1 # n2
       /\ info[n1].status = "substituted"
       /\ dag[n1].reversed
       /\ info[n2].status = "substituted"
       /\ Len(dag0[n2].qargs) = 2
       /\ ~dag[n2].reversed
       /\ Len(dag[n2].two_qubit_gates) >= 1
       /\ dag[n2].wires = <<0, 1>>

\* what the loop body makes of node n of the graph handed to the run, taken
\* on its own
C25_Own(n) ==
  LET r == run_node(dag0[n])
  IN  IF n \in named_nodes(dag0) /\ r.status = "substituted"
        THEN Substituted(r.synth, r.wires, r.reversed, dag0[n])
        ELSE dag0[n]

\* C25: the graph a run returns holds, for every node, what the loop body
\* makes of that node on its own, so it does not depend on the order of the
\* visits; at every moment a node is either as it was handed in or wholly
\* substituted; a pass of the loop changes at most the node it visits, and
\* only a node that is still as it was handed in
C25_OrderIndependent ==
  /\ [](/\ ppc = "done" => \A n \in DOMAIN dag : dag[n] = C25_Own(n)
        /\ ppc \in {"loop", "raised"} =>
             \A n \in DOMAIN dag :
               /\ dag[n] \in {dag0[n], C25_Own(n)}
               /\ n \in todo => dag[n] = dag0[n])
  /\ [][\A n \in DOMAIN dag :
          dag'[n] # dag[n] =>
            /\ n \in todo /\ n \notin todo'
            /\ dag[n] = dag0[n]
            /\ dag0' = dag0
            /\ \A l \in DOMAIN dag : l # n => dag'[l] = dag[l]]_vars

\* C25 witness: a run over two nodes on two qubits returned, one of them
\* substituted with the wires reversed and one not
C25_Witness ==
  /\ ppc = "done"
  /\ runs = 1
  /\ \E n1, n2 \in DOMAIN dag :
       /\ n1 # n2
       /\ info[n1].status = "substituted"
       /\ info[n2].status = "substituted"
       /\ dag[n1].reversed
       /\ ~dag[n2].reversed
       /\ dag[n1] # dag0[n1]
       /\ dag[n2] # dag0[n2]

\* C29: a node on two qubits with a natural direction, the error of its
\* native gate on record, is substituted without the pass raising; when the
\* first synthesized circuit holds no two-qubit gate it is the one
\* substituted, its wires in their order
C29_DirectionCheckCompletes ==
  \A n \in Visited2q :
    (/\ info[n].locals.natural_direction # NoDirection
     /\ "first_ops" \in DOMAIN info[n].locals)
    => /\ info[n].status = "substituted"
       /\ info[n].locals.first_ops = <<>> =>
            (~dag[n].reversed /\ dag[n].matrix = dag0[n].matrix)

\* C30: without a layout or without backend properties no query is made,
\* no node has a natural direction, the basis fidelity is the requested one
\* and no wires are reversed; the queries made are for the native gate
\* chosen from the basis gates, on qubits of a node of the graph
C30_QueriesForSelectedGate ==
  runs = 1 =>
    /\ ~Calibrated =>
         /\ queries = {}
         /\ \A n \in Visited2q :
              /\ info[n].locals.natural_direction = NoDirection
              /\ info[n].locals.basis_fidelity = synthesis_fidelity
              /\ info[n].status = "substituted" /\ ~dag[n].reversed
    /\ \A q \in queries :
         /\ q[1] = kak_gate
         /\ \E n \in Visited2q : q[2] \in {dag0[n].qargs, <<dag0[n].qargs[2], dag0[n].qargs[1]>>}

\* ------------------------------------------------------------------------
\* the two selectors on their own
\* ------------------------------------------------------------------------

\* gate names a basis may hold
GateNames == {"u3", "u1", "rx", "r", "rz", "ry", "cx", "cz", "iswap"}

SelectorInputs ==
  {[is_none |-> TRUE, names |-> {}]} \cup
  {[is_none |-> FALSE, names |-> ns] : ns \in SUBSET GateNames}

InitSelect ==
  /\ basis_gates \in SelectorInputs
  /\ ppc = "select"
  /\ synthesis_fidelity = ExactFidelity
  /\ backend_props = NoProps
  /\ layout = FALSE
  /\ dec_dir = <<0, 1>>
  /\ dag = <<>>
  /\ dag0 = <<>>
  /\ perror = NoError
  /\ euler_basis = "None"
  /\ kak_gate = "None"
  /\ pulse_optimize = FALSE
  /\ todo = {}
  /\ info = <<>>
  /\ runs = 0
  /\ queries = {}
  /\ wires = NoneWires

\* euler_basis = _choose_euler_basis(basis_gates)
call_choose_euler_basis ==
  /\ ppc = "select"
  /\ euler_basis' = choose_euler_basis(basis_gates)
  /\ ppc' = "euler_chosen"
  /\ UNCHANGED <<basis_gates, synthesis_fidelity, backend_props, layout, dec_dir,
                 dag, dag0, perror, kak_gate, pulse_optimize, todo, info, runs,
                 queries, wires>>
  /\ UNCHANGED <<ucgVars, tlVars>>

\* kak_gate = _choose_kak_gate(basis_gates), a first or a repeated call
call_choose_kak_gate(kak) ==
  /\ ppc \in {"euler_chosen", "kak_chosen"}
  /\ kak \in choose_kak_gate(basis_gates)
  /\ kak_gate' = kak
  /\ ppc' = "kak_chosen"
  /\ UNCHANGED <<basis_gates, synthesis_fidelity, backend_props, layout, dec_dir,
                 dag, dag0, perror, euler_basis, pulse_optimize, todo, info, runs,
                 queries, wires>>
  /\ UNCHANGED <<ucgVars, tlVars>>

NextSelect ==
  \/ call_choose_euler_basis
  \/ \E kak \in KakGateNames \cup {"None"} : call_choose_kak_gate(kak)

\* the label C12 states for a set of gate names
C12_Stated(S) ==
  IF {"u3"} \subseteq S THEN "U3"
  ELSE IF {"u1", "rx"} \subseteq S THEN "U1X"
  ELSE IF {"r"} \subseteq S THEN "RR"
  ELSE IF {"rz", "ry"} \subseteq S THEN "ZYZ"
  ELSE IF {"rz", "rx"} \subseteq S THEN "ZXZ"
  ELSE IF {"rx", "ry"} \subseteq S THEN "XYX"
  ELSE "None"

\* C12: _choose_euler_basis returns the first label in the order U3, U1X,
\* RR, ZYZ, ZXZ, XYX whose gate names are all in the basis-gate set, and
\* None when no label qualifies, an empty or absent set included
C12_FirstEulerBasis ==
  ppc \in {"euler_chosen", "kak_chosen"} =>
    euler_basis = C12_Stated(IF basis_gates.is_none THEN {} ELSE basis_gates.names)

\* a set that meets ZYZ, ZXZ and XYX, for which ZYZ was returned
C12_Witness ==
  /\ ppc = "euler_chosen"
  /\ basis_gates.names = {"rz", "ry", "rx", "cx"}
  /\ euler_basis = "ZYZ"

\* the first candidate of a set of gate names in the order cx, cz, iswap,
\* rxx, ecr
C13_First(S) ==
  IF "cx" \in S THEN "cx"
  ELSE IF "cz" \in S THEN "cz"
  ELSE IF "iswap" \in S THEN "iswap"
  ELSE IF "rxx" \in S THEN "rxx"
  ELSE IF "ecr" \in S THEN "ecr"
  ELSE "None"

\* C13: _choose_kak_gate returns None when the set holds none of cx, cz,
\* iswap, rxx, ecr and otherwise the first candidate in a fixed order, so
\* that calls with the same set return the same gate
C13_FixedPreference ==
  ppc = "kak_chosen" =>
    kak_gate = C13_First(IF basis_gates.is_none THEN {} ELSE basis_gates.names)

\* C11: a missing decomposer is no error: a visited 1-qubit node is left
\* untouched when no Euler basis matches, a visited 2-qubit node when no
\* native two-qubit gate matches; no run aborts on such a node, and a run
\* that ends has taken every unitary and swap node through the loop
C11_SkipNotError ==
  /\ \A n \in DOMAIN info :
       (/\ info[n].status # "pending"
        /\ \/ (Len(dag0[n].qargs) = 1 /\ euler_basis = "None")
           \/ (Len(dag0[n].qargs) = 2 /\ kak_gate = "None"))
       => (info[n].status = "skipped" /\ dag[n] = dag0[n])
  /\ ppc = "raised" =>
       \E n \in DOMAIN info : /\ info[n].status = "raised"
                              /\ Len(dag0[n].qargs) = 2
                              /\ kak_gate # "None"
  /\ ppc = "done" =>
       \A n \in DOMAIN dag0 :
         dag0[n].name \in {"unitary", "swap"} =>
           info[n].status \in {"skipped", "substituted"}

\* a finished run that skipped a 1-qubit node for want of an Euler basis
\* and substituted another node
C11_Witness ==
  /\ ppc = "done"
  /\ euler_basis = "None"
  /\ \E n \in DOMAIN info : /\ Len(dag0[n].qargs) = 1
                            /\ info[n].status = "skipped"
                            /\ dag[n] = dag0[n]
  /\ \E n \in DOMAIN info : info[n].status = "substituted"

\* ------------------------------------------------------------------------
\* timeline drawer: data
\* ------------------------------------------------------------------------

\* the qubits of the circuit
NumRegs == 3

\* the longest circuit
MaxInsts == 3

RECURSIVE Fact(_)
Fact(n) == IF n <= 1 THEN 1 ELSE n * Fact(n - 1)

\* x coordinates are held in ticks, TicksPerDt of them to the unit of time,
\* so that t0 + 0.5 * duration and np.mean of a group of links are exact
TicksPerDt == 2 * Fact(MaxInsts)

\* QiskitTimelineStyle.link_h_spacing
link_h_spacing == 20

\* QiskitTimelineStyle.register_label_h_offset
register_label_h_offset == 5

\* the durations inst_durations holds for h and cx, and that of a delay
DotDuration == 0
GateDuration == 10
DelayDuration == 5

\* position_table[reg] = None
NoPosition == 1

Inst(name, qargs, duration) == [name |-> name, qargs |-> qargs, duration |-> duration]

\* circuit.qubits: qubit j of the register is called j + 1 here
AllQubits == Tup([j \in 1 .. NumRegs |-> j])

Instructions ==
  {Inst("h", <<q>>, DotDuration) : q \in 1 .. NumRegs}
  \cup {Inst("cx", <<ab[1], ab[2]>>, GateDuration) :
          ab \in {p \in (1 .. NumRegs) \X (1 .. NumRegs) : p[1] # p[2]}}
  \cup {Inst("delay", <<q>>, DelayDuration) : q \in 1 .. NumRegs}
  \cup {Inst("barrier", AllQubits, 0), Inst("barrier", <<2>>, 0)}

Circuits == UNION {[1 .. n -> Instructions] : n \in 0 .. MaxInsts}

\* node.op: its name and its class
Operand(name) ==
  [name |-> name,
   cls |-> IF name = "barrier" THEN "Barrier"
           ELSE IF name = "delay" THEN "Delay"
           ELSE IF name = "cx" THEN "CXGate"
           ELSE "HGate"]

InstData(t0, operand, duration, rgs) ==
  [t0 |-> t0, operand |-> operand, duration |-> duration, regs |-> rgs]

\* RegisterEvents.parse_program: the instructions of reg from node j on
RECURSIVE parse_program(_, _, _, _)
parse_program(prog, reg, j, t0) ==
  IF j > Len(prog) THEN <<>>
  ELSE IF reg \notin Range(prog[j].qargs) THEN parse_program(prog, reg, j + 1, t0)
  ELSE <<InstData(t0, Operand(prog[j].name), prog[j].duration, prog[j].qargs)>>
       \o parse_program(prog, reg, j + 1, t0 + prog[j].duration)

\* Delay read as a real instruction: the faulty variant C18 is told apart
\* from
is_empty_but_for_delay(insts) ==
  \A j \in 1 .. Len(insts) : insts[j].operand.cls = "Barrier"

\* RegisterEvents.is_empty
is_empty(insts) ==
  \A j \in 1 .. Len(insts) : insts[j].operand.cls \in {"Barrier", "Delay"}

\* RegisterEvents.gates
gates(insts) ==
  LET Test(d) == d.operand.cls # "Barrier"
  IN  SelectSeq(insts, Test)

\* RegisterEvents.barriers
barriers(reg, insts) ==
  LET Test(d) == d.operand.cls = "Barrier" /\ d.regs[1] = reg
  IN  SelectSeq(insts, Test)

\* RegisterEvents.register_links; t0 of a link is in ticks
register_links(reg, insts) ==
  LET Test(d) == d.operand.cls # "Barrier" /\ Len(d.regs) > 1 /\ d.regs[1] = reg
      sel == SelectSeq(insts, Test)
  IN  Tup([j \in 1 .. Len(sel) |->
             InstData(TicksPerDt * sel[j].t0 + (TicksPerDt \div 2) * sel[j].duration,
                      sel[j].operand, sel[j].duration, sel[j].regs)])

\* list.index, 0-based
IndexOf(sq, x) == (CHOOSE j \in 1 .. Len(sq) : sq[j] = x /\ \A l \in 1 .. (j - 1) : sq[l] # x) - 1

\* macros.get_latex_gate_name
get_latex_gate_name(name) ==
  IF name = "h" THEN "H" ELSE IF name = "cx" THEN "CX" ELSE name

\* a drawing object: cls is its class; x is in ticks
DrawingObj(cls, data_type, bind, x, width, text, offset) ==
  [cls |-> cls, data_type |-> data_type, bind |-> bind, x |-> x, width |-> width,
   text |-> text, offset |-> offset, visible |-> TRUE]

NoText == [name |-> "", index |-> 0 - 1, duration |-> 0 - 1]

\* ElementaryData.data_key
data_key(o) == <<o.cls, o.data_type, o.bind, o.x, o.width, o.text>>

\* if drawing not in self.drawing_objs: self.drawing_objs.append(drawing)
AppendNew(objs, o) ==
  Val2(LAMBDA os, ob :
         IF \E j \in 1 .. Len(os) : data_key(os[j]) = data_key(ob)
           THEN os ELSE Append(os, ob),
       objs, o)

\* the drawing of one gate in DrawDataContainer._create_gates
GateDrawing(reg, d, pos) ==
  LET ix == IF Len(d.regs) > 1 THEN IndexOf(d.regs, reg) ELSE 0 - 1
      nm == get_latex_gate_name(d.operand.name)
  IN  IF d.duration > 0
        THEN DrawingObj("InfoBoxData", d.operand.cls, <<reg>>, TicksPerDt * d.t0,
                        d.duration,
                        [name |-> nm, index |-> ix, duration |-> d.duration],
                        pos[reg])
        ELSE DrawingObj("InfoDotData", d.operand.cls, <<reg>>, TicksPerDt * d.t0,
                        0, [name |-> nm, index |-> ix, duration |-> 0 - 1],
                        pos[reg])

\* DrawDataContainer._create_gates, from gate j on
RECURSIVE create_gates(_, _, _, _, _)
create_gates(objs, reg, gs, pos, j) ==
  IF j > Len(gs) THEN objs
  ELSE create_gates(AppendNew(objs, GateDrawing(reg, gs[j], pos)), reg, gs, pos, j + 1)

\* the lines of one barrier, from its register l on
RECURSIVE BarrierLines(_, _, _, _)
BarrierLines(objs, d, pos, l) ==
  IF l > Len(d.regs) THEN objs
  ELSE BarrierLines(AppendNew(objs,
                      DrawingObj("LineData", d.operand.cls, <<d.regs[l]>>,
                                 TicksPerDt * d.t0, 0, NoText, pos[d.regs[l]])),
                    d, pos, l + 1)

\* DrawDataContainer._create_barrier, from barrier j on
RECURSIVE create_barrier(_, _, _, _)
create_barrier(objs, bs, pos, j) ==
  IF j > Len(bs) THEN objs
  ELSE create_barrier(BarrierLines(objs, bs[j], pos, 1), bs, pos, j + 1)

\* DrawDataContainer._create_register_labels
create_register_labels(objs, bit, pos) ==
  AppendNew(objs, DrawingObj("TextData", "RegisterLabel", <<bit>>,
                             0 - register_label_h_offset * TicksPerDt, 0,
                             [name |-> "q", index |-> bit - 1, duration |-> 0 - 1],
                             pos[bit]))

\* DrawDataContainer._create_timeline
create_timeline(objs, bit, pos, dur) ==
  AppendNew(objs, DrawingObj("BoxData", "Timeline", <<bit>>, 0, dur, NoText, pos[bit]))

\* DrawDataContainer._create_register_link, from the pair at l on
RECURSIVE create_register_link(_, _, _, _)
create_register_link(objs, link, pos, l) ==
  IF l >= Len(link.regs) THEN objs
  ELSE create_register_link(
         AppendNew(objs,
           DrawingObj("LineData", "RegisterLink", <<link.regs[l], link.regs[l + 1]>>,
                      link.t0, 0, NoText,
                      <<pos[link.regs[l]], pos[link.regs[l + 1]]>>)),
         link, pos, l + 1)

\* ------------------------------------------------------------------------
\* timeline drawer: DrawDataContainer
\* ------------------------------------------------------------------------

\* insertion of x into a list sorted by ascending position, after its equals
InsertAsc(done, x, pos) ==
  Val1(LAMBDA dn :
         LET p == Cardinality({j \in 1 .. Len(dn) : pos[dn[j]] <= pos[x]})
         IN  SubSeq(dn, 1, p) \o <<x>> \o SubSeq(dn, p + 1, Len(dn)),
       done)

\* sorted(regs, key=lambda x: self.position_table[x]): stable, ascending
RECURSIVE SortedRegs(_, _, _)
SortedRegs(sq, pos, n) ==
  IF n = 0 THEN <<>> ELSE InsertAsc(SortedRegs(sq, pos, n - 1), sq[n], pos)

\* insertion of a link into a list sorted by descending position of its
\* last register, after its equals
InsertDesc(done, lk, pos) ==
  Val1(LAMBDA dn :
         LET p == Cardinality({j \in 1 .. Len(dn) :
                                 pos[dn[j].regs[Len(dn[j].regs)]]
                                   >= pos[lk.regs[Len(lk.regs)]]})
         IN  SubSeq(dn, 1, p) \o <<lk>> \o SubSeq(dn, p + 1, Len(dn)),
       done)

\* sorted(group, key=lambda x: self.position_table[x.regs[-1]], reverse=True)
RECURSIVE SortedLinks(_, _, _)
SortedLinks(group, pos, n) ==
  IF n = 0 THEN <<>> ELSE InsertDesc(SortedLinks(group, pos, n - 1), group[n], pos)

Abs(n) == IF n < 0 THEN 0 - n ELSE n

RemoveAt(sq, j) == SubSeq(sq, 1, j - 1) \o SubSeq(sq, j + 1, Len(sq))

\* the test of _gate_link_overlap_check for a link to join the group of ref
LinksOverlap(ref, other, pos) ==
  /\ Abs(ref.t0 - other.t0) < link_h_spacing * TicksPerDt
  /\ LET y0_min == pos[ref.regs[1]]
         y0_max == pos[ref.regs[Len(ref.regs)]]
         y1_min == pos[other.regs[1]]
         y1_max == pos[other.regs[Len(other.regs)]]
     IN  ~(/\ (y0_min - y1_min) * (y0_max - y1_max) > 0
           /\ (y0_min - y1_max) * (y0_max - y1_min) > 0)

\* for ind in reversed(range(len(links))): the group of ref and what is left
RECURSIVE CollectGroup(_, _, _, _, _)
CollectGroup(ref, rest, group, pos, ind) ==
  IF ind = 0 THEN [group |-> group, rest |-> rest]
  ELSE Val2(LAMBDA rs, gp :
              IF LinksOverlap(ref, rs[ind], pos)
                THEN CollectGroup(ref, RemoveAt(rs, ind), Append(gp, rs[ind]), pos, ind - 1)
                ELSE CollectGroup(ref, rs, gp, pos, ind - 1),
            rest, group)

\* while len(links) > 0: ...
RECURSIVE LinkGroups(_, _)
LinkGroups(lks, pos) ==
  IF Len(lks) = 0 THEN <<>>
  ELSE Val1(LAMBDA g : <<g.group>> \o LinkGroups(g.rest, pos),
            CollectGroup(lks[Len(lks)], SubSeq(lks, 1, Len(lks) - 1),
                         <<lks[Len(lks)]>>, pos, Len(lks) - 1))

RECURSIVE SumT0(_, _)
SumT0(group, n) == IF n = 0 THEN 0 ELSE group[n].t0 + SumT0(group, n - 1)

\* the links of one group, shifted when the group holds more than one
AlignGroup(group, pos) ==
  IF Len(group) > 1
    THEN LET xpos_mean == SumT0(group, Len(group)) \div Len(group)
             sorted_links == Val1(LAMBDA sl : sl, SortedLinks(group, pos, Len(group)))
             x0 == xpos_mean - ((link_h_spacing * TicksPerDt) \div 2) * (Len(group) - 1)
         IN  Tup([ind \in 1 .. Len(group) |->
                    InstData(x0 + (ind - 1) * link_h_spacing * TicksPerDt,
                             sorted_links[ind].operand, sorted_links[ind].duration,
                             sorted_links[ind].regs)])
    ELSE group

RECURSIVE AlignGroups(_, _, _)
AlignGroups(groups, pos, j) ==
  IF j > Len(groups) THEN <<>>
  ELSE AlignGroup(groups[j], pos) \o AlignGroups(groups, pos, j + 1)

\* DrawDataContainer._gate_link_overlap_check
gate_link_overlap_check(lks, pos) ==
  Val1(LAMBDA groups : AlignGroups(groups, pos, 1), LinkGroups(lks, pos))

\* update: the IRs of the registers, from register j of the order on
RECURSIVE CreateIRs(_, _, _, _, _, _)
CreateIRs(objs, order, events, pos, dur, j) ==
  IF j > Len(order) THEN objs
  ELSE LET bit == order[j]
           o1 == create_gates(objs, bit, gates(events[bit]), pos, 1)
           o2 == create_barrier(o1, barriers(bit, events[bit]), pos, 1)
           o3 == create_register_labels(o2, bit, pos)
           o4 == create_timeline(o3, bit, pos, dur)
       IN  CreateIRs(o4, order, events, pos, dur, j + 1)

\* update: the links of the registers, their regs sorted by position
RECURSIVE CollectLinks(_, _, _, _)
CollectLinks(order, events, pos, j) ==
  IF j > Len(order) THEN <<>>
  ELSE Val1(LAMBDA rl :
              Tup([l \in 1 .. Len(rl) |->
                     InstData(rl[l].t0, rl[l].operand, rl[l].duration,
                              SortedRegs(rl[l].regs, pos, Len(rl[l].regs)))]),
            register_links(order[j], events[order[j]]))
       \o CollectLinks(order, events, pos, j + 1)

RECURSIVE CreateLinks(_, _, _, _)
CreateLinks(objs, lks, pos, j) ==
  IF j > Len(lks) THEN objs
  ELSE CreateLinks(create_register_link(objs, lks[j], pos, 1), lks, pos, j + 1)

\* arrange_registers: the new position table
ArrangedPositions(pos, registers) ==
  [reg \in DOMAIN pos |->
     IF reg \notin Range(registers) THEN NoPosition ELSE 0 - IndexOf(registers, reg)]

\* arrange_registers: one drawing object under the new position table
ArrangedObj(o, pos) ==
  IF Len(o.bind) > 1
    THEN LET new_ys == Tup([j \in 1 .. Len(o.bind) |-> pos[o.bind[j]]])
         IN  IF NoPosition \in Range(new_ys) THEN [o EXCEPT !.visible = FALSE]
             ELSE [o EXCEPT !.offset = new_ys]
    ELSE LET new_y == pos[o.bind[1]]
         IN  IF new_y = NoPosition THEN [o EXCEPT !.visible = FALSE]
             ELSE [o EXCEPT !.offset = new_y]

\* the classes output_matplotlib draws
KnownClasses == {"InfoBoxData", "InfoDotData", "BoxData", "LineData", "TextData"}

\* the loop of output_matplotlib from object j on: the objects put on the
\* axes and the exception raised
RECURSIVE OutputLoop(_, _, _)
OutputLoop(objs, j, done) ==
  IF j > Len(objs) THEN [drawn |-> done, error |-> NoError]
  ELSE IF ~objs[j].visible THEN OutputLoop(objs, j + 1, done)
  ELSE IF objs[j].cls \in KnownClasses THEN OutputLoop(objs, j + 1, Append(done, j))
  ELSE OutputLoop(objs, j + 1, done)

\* ------------------------------------------------------------------------
\* timeline drawer: actions
\* ------------------------------------------------------------------------

VisualizationError(msg) == [kind |-> "VisualizationError", msg |-> msg]

Reversed(sq) == Tup([j \in 1 .. Len(sq) |-> sq[Len(sq) + 1 - j]])

RECURSIVE EndTime(_, _, _)
EndTime(prog, reg, j) ==
  IF j > Len(prog) THEN 0
  ELSE (IF reg \in Range(prog[j].qargs) THEN prog[j].duration ELSE 0)
       + EndTime(prog, reg, j + 1)

\* circuit.duration of the scheduled circuit: the end of its last instruction
CircuitDuration(prog) ==
  CHOOSE t \in {EndTime(prog, reg, 1) : reg \in 1 .. NumRegs} :
    \A reg \in 1 .. NumRegs : EndTime(prog, reg, 1) <= t

InitTimeline ==
  /\ scheduled_circuit \in Circuits
  /\ reverse_bits \in BOOLEAN
  /\ idle_wires \in BOOLEAN
  /\ tpc = "parse"
  /\ regs = <<>>
  /\ register_events = <<>>
  /\ program_duration = 0
  /\ position_table = <<>>
  /\ drawing_objs = <<>>
  /\ num_channel = 0
  /\ links = <<>>
  /\ aligned_links = <<>>
  /\ drawn = <<>>
  /\ terror = NoError

\* timeline_drawer: parse scheduled circuit, create data container
timeline_drawer_parse ==
  /\ tpc = "parse"
  /\ regs' = IF reverse_bits THEN Reversed(AllQubits) ELSE AllQubits
  /\ register_events' =
       Tup([reg \in 1 .. NumRegs |-> parse_program(scheduled_circuit, reg, 1, 0)])
  /\ program_duration' = CircuitDuration(scheduled_circuit)
  /\ tpc' = "update"
  /\ UNCHANGED <<scheduled_circuit, reverse_bits, idle_wires, position_table,
                 drawing_objs, num_channel, links, aligned_links, drawn, terror>>
  /\ UNCHANGED <<ucgVars, passVars>>

\* DrawDataContainer.update(register_events)
timeline_drawer_update ==
  /\ tpc = "update"
  /\ position_table' = Tup([reg \in 1 .. NumRegs |-> 0 - IndexOf(regs, reg)])
  /\ links' = CollectLinks(regs, register_events, position_table', 1)
  /\ aligned_links' = gate_link_overlap_check(links', position_table')
  /\ drawing_objs' =
       CreateLinks(CreateIRs(<<>>, regs, register_events, position_table',
                             program_duration, 1),
                   aligned_links', position_table', 1)
  /\ tpc' = "arrange"
  /\ UNCHANGED <<scheduled_circuit, reverse_bits, idle_wires, regs,
                 register_events, program_duration, num_channel, drawn, terror>>
  /\ UNCHANGED <<ucgVars, passVars>>

\* timeline_drawer: the registers to draw
registers_to_show ==
  LET Test(reg) == ~is_empty(register_events[reg])
  IN  IF ~idle_wires THEN SelectSeq(regs, Test) ELSE regs

\* DrawDataContainer.arrange_registers(registers_to_show)
timeline_drawer_arrange ==
  /\ tpc = "arrange"
  /\ position_table' = ArrangedPositions(position_table, registers_to_show)
  /\ drawing_objs' = Tup([j \in 1 .. Len(drawing_objs) |->
                            ArrangedObj(drawing_objs[j], position_table')])
  /\ num_channel' = Len(registers_to_show)
  /\ tpc' = "remove"
  /\ UNCHANGED <<scheduled_circuit, reverse_bits, idle_wires, regs,
                 register_events, program_duration, links, aligned_links, drawn,
                 terror>>
  /\ UNCHANGED <<ucgVars, passVars>>

\* DrawDataContainer.remove_drawings(removes)
timeline_drawer_remove(show_barrier, show_delay) ==
  /\ tpc = "remove"
  /\ LET removes == (IF ~show_barrier THEN {"Barrier"} ELSE {})
                    \cup (IF ~show_delay THEN {"Delay"} ELSE {})
     IN  drawing_objs' =
           Tup([j \in 1 .. Len(drawing_objs) |->
                  IF drawing_objs[j].data_type \in removes
                    THEN [drawing_objs[j] EXCEPT !.visible = FALSE]
                    ELSE drawing_objs[j]])
  /\ tpc' = "output"
  /\ UNCHANGED <<scheduled_circuit, reverse_bits, idle_wires, regs,
                 register_events, program_duration, position_table, num_channel,
                 links, aligned_links, drawn, terror>>
  /\ UNCHANGED <<ucgVars, passVars>>

\* timeline_drawer: the choice of the output format
timeline_drawer_output(output) ==
  /\ tpc = "output"
  /\ IF output = "mpl"
       THEN /\ tpc' = "container"
            /\ terror' = terror
       ELSE /\ tpc' = "raised"
            /\ terror' = VisualizationError("The output format is not supported.")
  /\ UNCHANGED <<scheduled_circuit, reverse_bits, idle_wires, regs,
                 register_events, program_duration, position_table, drawing_objs,
                 num_channel, links, aligned_links, drawn>>
  /\ UNCHANGED <<ucgVars, passVars>>

\* output_matplotlib(data)
output_matplotlib ==
  /\ tpc = "container"
  /\ LET o == Val1(LAMBDA r : r, OutputLoop(drawing_objs, 1, <<>>))
     IN  /\ drawn' = o.drawn
         /\ terror' = o.error
         /\ tpc' = IF o.error = NoError THEN "done" ELSE "raised"
  /\ UNCHANGED <<scheduled_circuit, reverse_bits, idle_wires, regs,
                 register_events, program_duration, position_table, drawing_objs,
                 num_channel, links, aligned_links>>
  /\ UNCHANGED <<ucgVars, passVars>>

NextTimeline ==
  \/ timeline_drawer_parse
  \/ timeline_drawer_update
  \/ timeline_drawer_arrange
  \/ \E show_barrier \in BOOLEAN, show_delay \in BOOLEAN :
       timeline_drawer_remove(show_barrier, show_delay)
  \/ \E output \in {"mpl", "text"} : timeline_drawer_output(output)
  \/ output_matplotlib

\* output_matplotlib called on a container of the caller's: the longest
\* container and its objects, of the five classes and of a class of the
\* caller's own
MaxObjs == 3

ContainerObjs ==
  {[DrawingObj(cls, "Drawing", <<1>>, 0, 0, NoText, 0) EXCEPT !.visible = v] :
     cls \in KnownClasses \cup {"CustomData"}, v \in BOOLEAN}

InitOutput ==
  /\ drawing_objs \in UNION {[1 .. n -> ContainerObjs] : n \in 0 .. MaxObjs}
  /\ tpc = "container"
  /\ scheduled_circuit = <<>>
  /\ reverse_bits = FALSE
  /\ idle_wires = TRUE
  /\ regs = <<>>
  /\ register_events = <<>>
  /\ program_duration = 0
  /\ position_table = <<0>>
  /\ num_channel = 1
  /\ links = <<>>
  /\ aligned_links = <<>>
  /\ drawn = <<>>
  /\ terror = NoError

NextOutput == output_matplotlib

\* ------------------------------------------------------------------------
\* timeline drawer: properties
\* ------------------------------------------------------------------------

\* C17: output_matplotlib raises VisualizationError when the container holds
\* a visible object that is of none of the classes InfoBoxData, InfoDotData,
\* BoxData, LineData, TextData
C17_InvalidObjectRaises ==
  (/\ tpc \in {"done", "raised"}
   /\ \E j \in 1 .. Len(drawing_objs) :
        drawing_objs[j].visible /\ drawing_objs[j].cls \notin KnownClasses)
  => (tpc = "raised" /\ terror.kind = "VisualizationError")

\* reg carries an instruction that is neither a Barrier nor a Delay
RealInstruction(reg) ==
  \E j \in 1 .. Len(scheduled_circuit) :
    /\ reg \in Range(scheduled_circuit[j].qargs)
    /\ scheduled_circuit[j].name \notin {"barrier", "delay"}

\* the registers with a real instruction, in the order of the drawing
ShownRegisters ==
  SelectSeq(IF reverse_bits THEN Reversed(AllQubits) ELSE AllQubits, RealInstruction)

\* C18: with idle_wires=False, after update and arrange_registers every
\* drawing object that binds a register without a real instruction is
\* invisible, every other object is visible with offset minus the index of
\* its register (of each of its registers) in the list of shown registers,
\* and num_channel is the number of shown registers
C18_IdleWiresHidden ==
  (tpc = "remove" /\ ~idle_wires) =>
    /\ num_channel = Len(ShownRegisters)
    /\ \A j \in 1 .. Len(drawing_objs) :
         LET o == drawing_objs[j]
         IN  IF \E l \in 1 .. Len(o.bind) : ~RealInstruction(o.bind[l])
               THEN ~o.visible
               ELSE /\ o.visible
                    /\ IF Len(o.bind) = 1
                         THEN o.offset = 0 - IndexOf(ShownRegisters, o.bind[1])
                         ELSE o.offset = Tup([l \in 1 .. Len(o.bind) |->
                                0 - IndexOf(ShownRegisters, o.bind[l])])

\* the first qubit holds a delay only and is hidden with its drawings; the
\* second moves up to offset 0 and a register link between the second and
\* the third stays visible
C18_Witness ==
  /\ tpc = "remove"
  /\ ~idle_wires
  /\ ~reverse_bits
  /\ num_channel = 2
  /\ \E j \in 1 .. Len(drawing_objs) :
       /\ drawing_objs[j].data_type = "Delay"
       /\ drawing_objs[j].bind = <<1>>
       /\ ~drawing_objs[j].visible
  /\ \E j \in 1 .. Len(drawing_objs) :
       /\ drawing_objs[j].data_type = "RegisterLabel"
       /\ drawing_objs[j].bind = <<2>>
       /\ drawing_objs[j].visible
       /\ drawing_objs[j].offset = 0
  /\ \E j \in 1 .. Len(drawing_objs) :
       /\ drawing_objs[j].data_type = "RegisterLink"
       /\ drawing_objs[j].visible
       /\ drawing_objs[j].offset = <<0 - 1, 0>>

\* the register spans of two links share a register position
SpansOverlap(l1, l2, pos) ==
  \E r1 \in 1 .. NumRegs, r2 \in 1 .. NumRegs :
    /\ \E a \in Range(l1.regs), b \in Range(l1.regs) : pos[a] <= pos[r1] /\ pos[r1] <= pos[b]
    /\ \E a \in Range(l2.regs), b \in Range(l2.regs) : pos[a] <= pos[r2] /\ pos[r2] <= pos[b]
    /\ pos[r1] = pos[r2]

LinkBody(lk) == <<lk.operand, lk.duration, lk.regs>>

\* the overlap check returns as many links as it was given, each with its
\* operand, duration and registers
LinksPreserved ==
  tpc = "arrange" =>
    /\ Len(aligned_links) = Len(links)
    /\ \A k \in 1 .. Len(links) :
         Cardinality({j \in 1 .. Len(aligned_links) :
                        LinkBody(aligned_links[j]) = LinkBody(links[k])})
           = Cardinality({j \in 1 .. Len(links) : LinkBody(links[j]) = LinkBody(links[k])})

\* C19: in the list the overlap check returns no two links with overlapping
\* register spans are closer horizontally than link_h_spacing, and the list
\* holds the links it was given, operand, duration and registers unchanged
C19_MarginKept ==
  tpc = "arrange" =>
    /\ LinksPreserved
    /\ \A i \in 1 .. Len(aligned_links), j \in 1 .. Len(aligned_links) :
         (i < j /\ SpansOverlap(aligned_links[i], aligned_links[j], position_table))
           => Abs(aligned_links[i].t0 - aligned_links[j].t0)
                >= link_h_spacing * TicksPerDt

\* ------------------------------------------------------------------------
\* specifications
\* ------------------------------------------------------------------------

IdleUCG ==
  /\ gate_list = [is_list |-> TRUE, items |-> <<>>]
  /\ up_to_diagonal = FALSE
  /\ pc = "idle"
  /\ error = NoError
  /\ num_qubits = 0
  /\ single_qubit_gates = <<>>
  /\ diag = <<>>
  /\ dec_step = 0
  /\ ucg_index = 0
  /\ pair_i = 0
  /\ circuit = <<>>
  /\ qc = <<>>
  /\ call = NoCall
  /\ demux = NoDemux
  /\ touched = Untouched

IdlePass ==
  /\ basis_gates = [is_none |-> TRUE, names |-> {}]
  /\ synthesis_fidelity = ExactFidelity
  /\ backend_props = NoProps
  /\ layout = FALSE
  /\ dec_dir = <<0, 1>>
  /\ dag = <<>>
  /\ dag0 = <<>>
  /\ ppc = "off"
  /\ perror = NoError
  /\ euler_basis = "None"
  /\ kak_gate = "None"
  /\ pulse_optimize = FALSE
  /\ todo = {}
  /\ info = <<>>
  /\ runs = 0
  /\ queries = {}
  /\ wires = NoneWires

\* the uniformly controlled gate: construction, circuit.ucg, decomposition
IdleTimeline ==
  /\ scheduled_circuit = <<>>
  /\ reverse_bits = FALSE
  /\ idle_wires = TRUE
  /\ tpc = "idle"
  /\ regs = <<>>
  /\ register_events = <<>>
  /\ program_duration = 0
  /\ position_table = <<>>
  /\ drawing_objs = <<>>
  /\ num_channel = 0
  /\ links = <<>>
  /\ aligned_links = <<>>
  /\ drawn = <<>>
  /\ terror = NoError

InitUCGSpec == InitUCG /\ IdlePass /\ IdleTimeline

SpecUCG == InitUCGSpec /\ [][NextUCG]_vars

\* the synthesis pass
InitPassSpec == InitPass /\ IdleUCG /\ IdleTimeline

SpecPass == InitPassSpec /\ [][NextPass]_vars

InitSelectSpec == InitSelect /\ IdleUCG /\ IdleTimeline

\* the selectors _choose_euler_basis and _choose_kak_gate
SpecSelect == InitSelectSpec /\ [][NextSelect]_vars

InitTimelineSpec == InitTimeline /\ IdleUCG /\ IdlePass

\* timeline_drawer
SpecTimeline == InitTimelineSpec /\ [][NextTimeline]_vars

InitOutputSpec == InitOutput /\ IdleUCG /\ IdlePass

\* output_matplotlib on a container of the caller's
SpecOutput == InitOutputSpec /\ [][NextOutput]_vars
====
